---- MODULE Spec2Model ----
(***************************************************************************)
(* Model of the WolkGatewayModule-SDK-Python orchestrator (class Wolk),    *)
(* its outbound queue (OutboundMessageDeque), its codecs' topics and the   *)
(* connectivity service it drives.                                         *)
(*                                                                         *)
(* Strings are sequences of tokens: a device key such as "a0" is           *)
(* <<"a", "0">>, a topic is the concatenation of its root, the path        *)
(* prefixes, the key and the reference, so that Python's substring test    *)
(* `key in topic` is a real test on the model's topics.                    *)
(*                                                                         *)
(* Every handler of the orchestrator is one action.  The variable `last`   *)
(* records what the handler that ran last did: its arguments, the queue    *)
(* before the call, the ordered list of the calls it made on the           *)
(* transport, the queue and the user callbacks, and how it ended.          *)
(***************************************************************************)
EXTENDS Integers, Sequences, FiniteSets, TLC

\* ------------------------------------------------------------------ bounds
MaxQueue == 3
MaxPub == 4
MaxInboundQueue == 1
MaxConnectQueue == 2

\* --------------------------------------------------------------- strings
RECURSIVE Flatten(_)
Flatten(ss) == IF ss = <<>> THEN <<>> ELSE Head(ss) \o Flatten(Tail(ss))

\* Python's `sub in s` on strings
Contains(s, sub) ==
    \E i \in 0..(Len(s) - Len(sub)) : SubSeq(s, i + 1, i + Len(sub)) = sub

\* Python's list comprehension / `x in list`
InSeq(x, s) == \E i \in 1..Len(s) : s[i] = x

KeyA  == <<"a">>
KeyA0 == <<"a", "0">>
KeyB  == <<"b">>
Keys  == {KeyA, KeyA0, KeyB}
NoKey == <<>>

RefT  == <<"T">>
RefSW == <<"SW">>

\* --------------------------------------------------------------- messages
Message(topic, payload) == [topic |-> topic, payload |-> payload]
NoMessage == Message(<<>>, <<>>)

\* ------------------------------------------------------------ data codec
DEVICE_PATH_PREFIX    == <<"d/">>
REFERENCE_PATH_PREFIX == <<"r/">>
CHANNEL_WILDCARD      == <<"#">>
SENSOR_READING        == <<"d2p/sensor_reading/">>
AlARM                 == <<"d2p/events/">>
ACTUATOR_SET          == <<"p2d/actuator_set/">>
ACTUATOR_GET          == <<"p2d/actuator_get/">>
ACTUATOR_STATUS       == <<"d2p/actuator_status/">>
CONFIGURATION_SET     == <<"p2d/configuration_set/">>
CONFIGURATION_GET     == <<"p2d/configuration_get/">>
CONFIGURATION_STATUS  == <<"d2p/configuration_get/">>

DataInboundTopics(key) ==
    << ACTUATOR_SET \o DEVICE_PATH_PREFIX \o key
           \o REFERENCE_PATH_PREFIX \o CHANNEL_WILDCARD,
       ACTUATOR_GET \o DEVICE_PATH_PREFIX \o key
           \o REFERENCE_PATH_PREFIX \o CHANNEL_WILDCARD,
       CONFIGURATION_SET \o DEVICE_PATH_PREFIX \o key,
       CONFIGURATION_GET \o DEVICE_PATH_PREFIX \o key >>

\* value is a scalar already in its str() form; timestamp a token
make_sensor_reading_message(key, reference, value, timestamp) ==
    Message(SENSOR_READING \o DEVICE_PATH_PREFIX \o key
                \o REFERENCE_PATH_PREFIX \o reference,
            <<"{data:", value, "utc:", timestamp, "}">>)

\* active is a boolean already in its JSON form
make_alarm_message(key, reference, active, timestamp) ==
    Message(AlARM \o DEVICE_PATH_PREFIX \o key
                \o REFERENCE_PATH_PREFIX \o reference,
            <<"{data:", active, "utc:", timestamp, "}">>)

make_actuator_status_message(key, reference, state, value) ==
    Message(ACTUATOR_STATUS \o DEVICE_PATH_PREFIX \o key
                \o REFERENCE_PATH_PREFIX \o reference,
            <<"{status:", state, "value:", value, "}">>)

make_configuration_message(key, configuration) ==
    Message(CONFIGURATION_STATUS \o DEVICE_PATH_PREFIX \o key,
            <<"{values:">> \o configuration \o <<"}">>)

\* ---------------------------------------------------------- status codec
DEVICE_STATUS_UPDATE_TOPIC_ROOT  == <<"d2p/subdevice_status_update/">>
DEVICE_STATUS_RESPONSE_TOPIC_ROOT == <<"d2p/subdevice_status_response/">>
DEVICE_STATUS_REQUEST_TOPIC_ROOT == <<"p2d/subdevice_status_request/">>
LAST_WILL_TOPIC                  == <<"lastwill">>

StatusInboundTopics(key) ==
    << DEVICE_STATUS_REQUEST_TOPIC_ROOT \o DEVICE_PATH_PREFIX \o key >>

make_device_status_response_message(key, status) ==
    Message(DEVICE_STATUS_RESPONSE_TOPIC_ROOT \o DEVICE_PATH_PREFIX \o key,
            <<"{state:", status, "}">>)

make_device_status_update_message(key, status) ==
    Message(DEVICE_STATUS_UPDATE_TOPIC_ROOT \o DEVICE_PATH_PREFIX \o key,
            <<"{state:", status, "}">>)

\* json.dumps of a list of strings: [ "k1" , "k2" ]
RECURSIVE JsonItems(_)
JsonItems(keys) ==
    IF keys = <<>> THEN <<>>
    ELSE <<"\"">> \o Head(keys) \o <<"\"">>
         \o (IF Tail(keys) = <<>> THEN <<>> ELSE <<", ">>)
         \o JsonItems(Tail(keys))

JsonDumpsList(keys) == <<"[">> \o JsonItems(keys) \o <<"]">>

make_last_will_message(device_keys) ==
    Message(LAST_WILL_TOPIC, JsonDumpsList(device_keys))

\* ---------------------------------------------------- registration codec
DEVICE_REGISTRATION_REQUEST_TOPIC_ROOT  == <<"d2p/register_subdevice_request/">>
DEVICE_REGISTRATION_RESPONSE_TOPIC_ROOT == <<"p2d/register_subdevice_response/">>

RegistrationInboundTopics(key) ==
    << DEVICE_REGISTRATION_RESPONSE_TOPIC_ROOT \o DEVICE_PATH_PREFIX \o key >>

BoolTok(b) == IF b THEN "true" ELSE "false"

make_registration_message(device) ==
    Message(DEVICE_REGISTRATION_REQUEST_TOPIC_ROOT,
            <<"{name:">> \o device.name \o <<"deviceKey:">> \o device.key
              \o <<"defaultBinding:", "true", "actuators:">>
              \o Flatten(device.actuators)
              \o <<"configurations:", BoolTok(device.configurations),
                   "supportsFirmwareUpdate:", BoolTok(device.firmware), "}">>)

\* -------------------------------------------------------- firmware codec
FIRMWARE_UPDATE_INSTALL_TOPIC_ROOT == <<"p2d/firmware_update_install/">>
FIRMWARE_UPDATE_ABORT_TOPIC_ROOT   == <<"p2d/firmware_update_abort/">>
FIRMWARE_UPDATE_STATUS_TOPIC_ROOT  == <<"d2p/firmware_update_status/">>
FIRMWARE_VERSION_UPDATE_TOPIC_ROOT == <<"d2p/firmware_version_update/">>

FirmwareInboundTopics(key) ==
    << FIRMWARE_UPDATE_INSTALL_TOPIC_ROOT \o DEVICE_PATH_PREFIX \o key,
       FIRMWARE_UPDATE_ABORT_TOPIC_ROOT \o DEVICE_PATH_PREFIX \o key >>

\* status is [status, error_code]; error_code "" stands for None
FirmwareUpdateStatus(state, code) == [status |-> state, error_code |-> code]

make_update_message(key, status) ==
    Message(FIRMWARE_UPDATE_STATUS_TOPIC_ROOT \o DEVICE_PATH_PREFIX \o key,
            <<"{status:", status.status>>
              \o (IF status.error_code # "" THEN <<"error:", status.error_code>>
                  ELSE <<>>)
              \o <<"}">>)

make_version_message(key, version) ==
    Message(FIRMWARE_VERSION_UPDATE_TOPIC_ROOT \o DEVICE_PATH_PREFIX \o key,
            <<version>>)

\* ---------------------------------------------------------- outbound queue
put(q, m) == Append(q, m)

get(q) == IF q = <<>> THEN [message |-> NoMessage, queue |-> q, none |-> TRUE]
          ELSE [message |-> Head(q), queue |-> Tail(q), none |-> FALSE]

\* a removal that deletes every element equal to m
remove_every(q, m) == SelectSeq(q, LAMBDA x : x # m)

RECURSIVE remove(_, _)
remove(q, m) ==
    IF q = <<>> THEN q
    ELSE IF Head(q) = m THEN Tail(q)
    ELSE <<Head(q)>> \o remove(Tail(q), m)

\* a filter that forgets the key
get_messages_for_device_unfiltered(q, key) ==
    SelectSeq(q, LAMBDA m : TRUE)

get_messages_for_device(q, key) ==
    SelectSeq(q, LAMBDA m : Contains(m.topic, key))

queue_size(q) == Len(q)

\* ----------------------------------------------------------------- devices
Device(key, name, actuators, configurations, firmware) ==
    [key |-> key, name |-> name, actuators |-> actuators,
     configurations |-> configurations, firmware |-> firmware]

get_actuator_references(device) == device.actuators
has_configurations(device)      == device.configurations
supports_firmware_update(device) == device.firmware

DevA  == Device(KeyA, <<"A">>, <<RefSW>>, TRUE, FALSE)
DevA2 == Device(KeyA, <<"A2">>, <<>>, FALSE, FALSE)
DevA0 == Device(KeyA0, <<"A0">>, <<>>, FALSE, FALSE)
DevB  == Device(KeyB, <<"B">>, <<>>, FALSE, TRUE)
DeviceUniverse == {DevA, DevA2, DevA0, DevB}
NoDevice == Device(NoKey, <<>>, <<>>, FALSE, FALSE)

RECURSIVE DeviceKeys(_)
DeviceKeys(devs) ==
    IF devs = <<>> THEN <<>> ELSE <<Head(devs).key>> \o DeviceKeys(Tail(devs))

\* ------------------------------------------------------------------- state
VARIABLES
    handlers,    \* which optional callbacks the constructor was given
    devices,     \* Wolk.devices
    topics,      \* connectivity_service.topics
    lastwill,    \* connectivity_service.lastwill_message
    queue,       \* outbound_message_queue.queue
    connected,   \* connectivity_service.connected
    installing,  \* keys whose install_firmware call has not called back yet
    last,        \* what the last handler did
    threads,     \* caller threads that are inside an operation, step by step
    session,     \* registration requests the transport took in this session
    mqtt,        \* the fields of one MQTTConnectivityService and its broker
    call         \* a codec or model function, its arguments and its result

vars == <<handlers, devices, topics, lastwill, queue, connected, installing, last,
          threads, session, mqtt, call>>

\* the state of the Wolk object and of its callers
wolk == <<handlers, devices, topics, lastwill, queue, connected, installing, last,
          threads, session>>

\* MQTTConnectivityService.__init__: `connected` is False and `connected_rc`
\* is not assigned; no client exists, no attempt is running. `answer` is the
\* broker's answer to the attempt in progress or made last, `slept` whether
\* the wait loop of the attempt has slept, `result` how the last call ended
NewService ==
    [connected |-> FALSE, connected_rc |-> "unset", client |-> FALSE,
     pc |-> "idle", answer |-> "none", slept |-> FALSE, result |-> "none"]

\* nothing has been called
NoCall == [f |-> "none", arg |-> <<>>, out |-> <<>>, raised |-> FALSE]

\* ----------------------------------------------------------------- threads
\* two caller threads; the interpreter switches between them at any point
\* between two calls, so an operation is a sequence of steps
Threads == {1, 2}

\* a thread outside any operation, and after an operation: `op` is the
\* operation it ran last, `result` how that ended, `acc` and `events` what
\* it returned and emitted
IdleThread ==
    [pc |-> "idle", op |-> "none", m |-> NoMessage,
     key |-> NoKey, dev |-> NoDevice, i |-> 0, acc |-> <<>>, stale |-> FALSE,
     seen |-> {}, events |-> <<>>, result |-> "none"]

\* the constructor accepts the actuation pair and the configuration pair
\* only both-or-neither, the firmware handler is optional
HandlerConfigs == [act : BOOLEAN, conf : BOOLEAN, fw : BOOLEAN]

\* ------------------------------------------------------------------ events
Ev(t, f, k, m) == [t |-> t, f |-> f, k |-> k, m |-> m, a |-> <<>>]
Pub(m)     == Ev("pub", "publish", NoKey, m)
PubFail(m) == Ev("pubfail", "publish", NoKey, m)
Put(m)     == Ev("put", "put", NoKey, m)
PutFail(m) == Ev("putfail", "put", NoKey, m)
Call(f, k) == Ev("call", f, k, NoMessage)
CallRaise(f, k) == Ev("callraise", f, k, NoMessage)
\* a call with the arguments that follow the device key
CallWith(f, k, a) == [Call(f, k) EXCEPT !.a = a]
\* an inbound message handed to _on_inbound_message; `a` is what the sender
\* built it from
Recv(m, a) == [Ev("recv", "_on_inbound_message", NoKey, m) EXCEPT !.a = a]

Last(op, key, dev, arg, events, result) ==
    [op |-> op, key |-> key, dev |-> dev, arg |-> arg, pre |-> queue,
     conn |-> connected, events |-> events, result |-> result]

\* a broker session runs from a connect() that succeeds to the next
\* disconnect(); `regs` counts, per device key, the registration requests the
\* transport accepted since the session was opened, `failed` is set once
\* the transport has refused a message; counting is switched on by the
\* specification that follows sessions
NoSession(on) == [on |-> on, failed |-> FALSE, regs |-> [k \in Keys |-> 0]]

RegistrationsOf(events, key) ==
    Cardinality({i \in DOMAIN events :
                    /\ events[i].t = "pub"
                    /\ \E d \in DeviceUniverse :
                           d.key = key /\ events[i].m = make_registration_message(d)})

SessionAfter(s, l, was, is) ==
    IF ~s.on THEN s
    ELSE LET base == IF is /\ ~was THEN NoSession(TRUE).regs ELSE s.regs
         IN [on |-> TRUE,
             failed |-> s.failed \/ \E i \in DOMAIN l.events :
                                        l.events[i].t = "pubfail",
             regs |-> [k \in Keys |-> base[k] + RegistrationsOf(l.events, k)]]

Tracked == session' = SessionAfter(session, last', connected, connected')

\* running state of a handler: queue, events so far, number of transport
\* publishes made so far, and whether an exception is propagating
St(q, ev, n, result) == [q |-> q, ev |-> ev, n |-> n, result |-> result]

\* the broker's verdict on the n-th transport publish of a handler that can
\* make at most `most` of them (later ones, beyond MaxPub, succeed)
Min(a, b) == IF a < b THEN a ELSE b
PubOraclesOver(most, verdicts) == [1..Min(most, MaxPub) -> verdicts]
PubOracles(most) == PubOraclesOver(most, BOOLEAN)
OracleAt(oracle, n) == IF n \in DOMAIN oracle THEN oracle[n] ELSE TRUE

\* ------------------------------------------------------------- transport
\* MQTTConnectivityService.publish: false when not connected, else the
\* broker's verdict
TransportPublish(conn, ok) == conn /\ ok

ConnectOutcomes == {"ok", "false", "raise"}

add_subscription_topics(ts, new) == ts \o new

set_lastwill_message(old, message) == message

ConnectedCall(conn) == conn

\* ------------------------------------------------- publish or store tails
\* `if connected(): if not publish(m): put(m)  else: put(m)`; the variant
\* has no fallback to the queue when the transport refuses the message
PublishElseDrop(st, m, conn, oracle) ==
    IF ConnectedCall(conn)
    THEN IF TransportPublish(conn, OracleAt(oracle, st.n))
         THEN St(st.q, Append(st.ev, Pub(m)), st.n + 1, st.result)
         ELSE St(st.q, st.ev \o <<PubFail(m)>>, st.n + 1, st.result)
    ELSE St(put(st.q, m), Append(st.ev, Put(m)), st.n, st.result)

PublishElseStore(st, m, conn, oracle) ==
    IF ConnectedCall(conn)
    THEN IF TransportPublish(conn, OracleAt(oracle, st.n))
         THEN St(st.q, Append(st.ev, Pub(m)), st.n + 1, st.result)
         ELSE St(put(st.q, m), st.ev \o <<PubFail(m), Put(m)>>, st.n + 1, st.result)
    ELSE St(put(st.q, m), Append(st.ev, Put(m)), st.n, st.result)

\* `if not publish(m): if not put(m): log`; the variant stores the message
\* whatever the transport answered
TryPublishAndStore(st, m, conn, oracle) ==
    IF TransportPublish(conn, OracleAt(oracle, st.n))
    THEN St(put(st.q, m), st.ev \o <<Pub(m), Put(m)>>, st.n + 1, st.result)
    ELSE St(put(st.q, m), st.ev \o <<PubFail(m), Put(m)>>, st.n + 1, st.result)

TryPublishThenStore(st, m, conn, oracle) ==
    IF TransportPublish(conn, OracleAt(oracle, st.n))
    THEN St(st.q, Append(st.ev, Pub(m)), st.n + 1, st.result)
    ELSE St(put(st.q, m), st.ev \o <<PubFail(m), Put(m)>>, st.n + 1, st.result)

Raise(st, ev) == St(st.q, st.ev \o ev, st.n, "raise")

\* --------------------------------------------------------------- providers
\* what the user's callbacks return during one handler
DeviceStatusReturns == {"0", "None"}
ActuatorReturns ==
    { [state |-> "READY", value |-> "1"],
      [state |-> "None", value |-> "1"],
      [state |-> "READY", value |-> "None"],
      [state |-> "notAnActuatorState", value |-> "1"] }
ConfigurationReturns == { <<"c:", "5">>, <<"None">> }
VersionReturns == {"1.0", ""}
Providers ==
    [status : DeviceStatusReturns, act : ActuatorReturns,
     conf : ConfigurationReturns, version : VersionReturns]
DefaultProvider ==
    [status |-> "0", act |-> [state |-> "READY", value |-> "1"],
     conf |-> <<"c:", "5">>, version |-> "1.0"]

IsActuatorState(s) == s \in {"READY", "BUSY", "ERROR"}

\* ------------------------------------------------------------ publish_*
publish_acutator_status(st, key, reference, conn, oracle, prov) ==
    IF ~handlers.act THEN Raise(st, <<>>)
    ELSE LET called == St(st.q, Append(st.ev, CallWith("acutator_status_provider", key,
                                                       <<reference>>)),
                          st.n, st.result)
         IN IF prov.act.state = "None" THEN Raise(called, <<>>)
            ELSE IF ~IsActuatorState(prov.act.state) THEN Raise(called, <<>>)
            ELSE PublishElseStore(called,
                     make_actuator_status_message(key, reference,
                                                  prov.act.state, prov.act.value),
                     conn, oracle)

publish_device_status(st, key, conn, oracle, prov) ==
    LET called == St(st.q, Append(st.ev, Call("device_status_provider", key)),
                     st.n, st.result)
    IN IF prov.status = "None" THEN Raise(called, <<>>)
       ELSE PublishElseStore(called,
                make_device_status_update_message(key, prov.status),
                conn, oracle)

publish_configuration(st, key, conn, oracle, prov) ==
    IF ~handlers.conf THEN Raise(st, <<>>)
    ELSE LET called == St(st.q, Append(st.ev, Call("configuration_provider", key)),
                          st.n, st.result)
         IN IF prov.conf = <<"None">> THEN Raise(called, <<>>)
            ELSE PublishElseStore(called,
                     make_configuration_message(key, prov.conf), conn, oracle)

\* ------------------------------------------------------------------- Init
InitWolk(configs, following) ==
    /\ handlers \in configs
    /\ session = NoSession(following)
    /\ devices = <<>>
    /\ topics = <<>>
    /\ lastwill = make_last_will_message(DeviceKeys(<<>>))
    /\ queue = <<>>
    /\ connected = FALSE
    /\ installing = {}
    /\ threads = [t \in Threads |-> IdleThread]
    /\ last = [op |-> "init", key |-> NoKey, dev |-> NoDevice, arg |-> "", pre |-> <<>>,
               conn |-> FALSE, events |-> <<>>, result |-> "ok"]

InitState(configs, following) ==
    /\ InitWolk(configs, following)
    /\ mqtt = NewService
    /\ call = NoCall

InitWith(configs) == InitState(configs, FALSE)

Init == InitWith(HandlerConfigs)

\* ------------------------------------- add_sensor_reading and add_alarm
\* what outbound_message_queue.put may answer: OutboundMessageDeque always
\* answers True, a queue given to the constructor may answer False
PutVerdicts == BOOLEAN

\* a tail that hands the message to the transport when connected
StoreOrPublish(st, m, accepted, conn) ==
    IF conn THEN St(st.q, Append(st.ev, Pub(m)), st.n + 1, st.result)
    ELSE IF accepted THEN St(put(st.q, m), Append(st.ev, Put(m)), st.n, st.result)
    ELSE Raise(st, <<PutFail(m)>>)

\* `if not put(message): raise RuntimeError`
StoreOrRaise(st, m, accepted, conn) ==
    IF accepted THEN St(put(st.q, m), Append(st.ev, Put(m)), st.n, st.result)
    ELSE Raise(st, <<PutFail(m)>>)

AddSensorReading(key, reference, value, timestamp) ==
    \E accepted \in PutVerdicts :
        LET message == make_sensor_reading_message(key, reference, value, timestamp)
            st == StoreOrRaise(St(queue, <<>>, 1, "ok"), message, accepted, connected)
        IN /\ Len(st.q) <= MaxQueue
           /\ queue' = st.q
           /\ last' = Last("add_sensor_reading", key, NoDevice, "", st.ev, st.result)
           /\ UNCHANGED <<mqtt, call, threads, handlers, devices, topics, lastwill, connected, installing>> /\ Tracked

AddAlarm(key, reference, active, timestamp) ==
    \E accepted \in PutVerdicts :
        LET message == make_alarm_message(key, reference, active, timestamp)
            st == StoreOrRaise(St(queue, <<>>, 1, "ok"), message, accepted, connected)
        IN /\ Len(st.q) <= MaxQueue
           /\ queue' = st.q
           /\ last' = Last("add_alarm", key, NoDevice, "", st.ev, st.result)
           /\ UNCHANGED <<mqtt, call, threads, handlers, devices, topics, lastwill, connected, installing>> /\ Tracked

\* ----------------------------------------------------------------- publish
\* `while queue_size() > 0: m = get(); if not publish(m): log.info.error;
\*  return; remove(m)`.  `self.log.info.error` is an attribute of a bound
\* method that does not exist: the failure branch ends in AttributeError.
RECURSIVE DrainAll(_, _, _)
DrainAll(st, conn, oracle) ==
    IF queue_size(st.q) = 0 THEN st
    ELSE LET g == get(st.q)
         IN IF ~TransportPublish(conn, OracleAt(oracle, st.n))
            THEN St(g.queue, Append(st.ev, PubFail(g.message)), st.n + 1, "raise")
            ELSE DrainAll(St(remove(g.queue, g.message),
                             Append(st.ev, Pub(g.message)), st.n + 1, st.result),
                          conn, oracle)

\* `for m in messages: if not publish(m): log.info.error; return; remove(m)`
RECURSIVE DrainFor(_, _, _, _)
DrainFor(messages, st, conn, oracle) ==
    IF messages = <<>> THEN st
    ELSE LET m == Head(messages)
         IN IF ~TransportPublish(conn, OracleAt(oracle, st.n))
            THEN St(st.q, Append(st.ev, PubFail(m)), st.n + 1, "raise")
            ELSE DrainFor(Tail(messages),
                          St(remove(st.q, m), Append(st.ev, Pub(m)),
                             st.n + 1, st.result),
                          conn, oracle)

\* a publish that drains without asking whether the transport is connected
publish_unguarded(device_key, oracle) ==
    LET st0 == St(queue, <<>>, 1, "ok")
    IN IF queue_size(queue) = 0 THEN st0
       ELSE IF device_key = NoKey THEN DrainAll(st0, connected, oracle)
       ELSE DrainFor(get_messages_for_device(queue, device_key), st0,
                     connected, oracle)

\* device_key = NoKey stands for publish() without a key
publish(device_key, oracle) ==
    LET st0 == St(queue, <<>>, 1, "ok")
    IN IF queue_size(queue) = 0 THEN st0
       ELSE IF ~ConnectedCall(connected) THEN st0
       ELSE IF device_key = NoKey THEN DrainAll(st0, connected, oracle)
       ELSE DrainFor(get_messages_for_device(queue, device_key), st0,
                     connected, oracle)

PublishAll ==
    \E oracle \in PubOracles(IF connected THEN Len(queue) ELSE 0) :
        LET st == publish(NoKey, oracle)
        IN /\ queue' = st.q
           /\ last' = Last("publish", NoKey, NoDevice, "", st.ev, st.result)
           /\ UNCHANGED <<mqtt, call, threads, handlers, devices, topics, lastwill, connected, installing>> /\ Tracked

PublishKey(key) ==
    \E oracle \in PubOracles(IF connected THEN Len(queue) ELSE 0) :
        LET st == publish(key, oracle)
        IN /\ queue' = st.q
           /\ last' = Last("publish", key, NoDevice, "", st.ev, st.result)
           /\ UNCHANGED <<mqtt, call, threads, handlers, devices, topics, lastwill, connected, installing>> /\ Tracked

\* ----------------------------------------------------------------- connect
\* a loop over the actuator references that publishes nothing
PublishNoActuators(refs, st, key, conn, oracle, prov) == st

RECURSIVE PublishActuators(_, _, _, _, _, _)
PublishActuators(refs, st, key, conn, oracle, prov) ==
    IF refs = <<>> \/ st.result = "raise" THEN st
    ELSE PublishActuators(Tail(refs),
             publish_acutator_status(st, key, Head(refs), conn, oracle, prov),
             key, conn, oracle, prov)

\* firmware version of one device inside connect(): `continue` when the
\* handler returns no version
ConnectFirmware(st, device, conn, oracle, prov) ==
    IF ~supports_firmware_update(device) THEN st
    ELSE IF ~handlers.fw THEN Raise(st, <<>>)
    ELSE LET called == St(st.q, Append(st.ev, Call("get_firmware_version", device.key)),
                          st.n, st.result)
         IN IF prov.version = "" THEN called
            ELSE TryPublishThenStore(called,
                     make_version_message(device.key, prov.version), conn, oracle)

RECURSIVE ConnectDevices(_, _, _, _, _)
ConnectDevices(devs, st, conn, oracle, prov) ==
    IF devs = <<>> \/ st.result = "raise" THEN st
    ELSE LET device == Head(devs)
             s1 == publish_device_status(st, device.key, conn, oracle, prov)
             s2 == PublishActuators(get_actuator_references(device), s1,
                                    device.key, conn, oracle, prov)
             s3 == IF s2.result # "raise" /\ has_configurations(device)
                   THEN publish_configuration(s2, device.key, conn, oracle, prov)
                   ELSE s2
             s4 == IF s3.result # "raise"
                   THEN ConnectFirmware(s3, device, conn, oracle, prov)
                   ELSE s3
         IN ConnectDevices(Tail(devs), s4, conn, oracle, prov)

\* number of messages connect() can emit for the registered devices, and the
\* provider answers that matter for them
RECURSIVE ConnectMessages(_)
ConnectMessages(devs) ==
    IF devs = <<>> THEN 0
    ELSE 1 + Len(Head(devs).actuators)
           + (IF Head(devs).configurations THEN 1 ELSE 0)
           + (IF Head(devs).firmware THEN 1 ELSE 0)
           + ConnectMessages(Tail(devs))

ProvidersFor(devs) ==
    { p \in Providers :
        /\ (devs = <<>> => p.status = DefaultProvider.status)
        /\ ((\A i \in 1..Len(devs) : devs[i].actuators = <<>>)
               => p.act = DefaultProvider.act)
        /\ ((\A i \in 1..Len(devs) : ~devs[i].configurations)
               => p.conf = DefaultProvider.conf)
        /\ ((\A i \in 1..Len(devs) : ~devs[i].firmware)
               => p.version = DefaultProvider.version) }

\* provs: the answers the user's providers may give; verdicts: the answers
\* the broker may give to a publish
ConnectWith(provs, verdicts) ==
    \E outcome \in (IF connected THEN {"ok"} ELSE ConnectOutcomes),
       oracle \in PubOraclesOver(ConnectMessages(devices), verdicts),
       prov \in provs \cap ProvidersFor(devices) :
        LET st0 == St(queue, <<>>, 1, "ok")
            conn == IF connected THEN TRUE ELSE outcome = "ok"
            calls == IF connected THEN <<>> ELSE <<Call("connect", NoKey)>>
            st == IF ~connected /\ outcome = "raise" THEN st0
                  ELSE IF conn THEN ConnectDevices(devices, st0, conn, oracle, prov)
                  ELSE st0
        IN /\ Len(st.q) <= MaxQueue
           /\ (~conn => /\ prov = DefaultProvider
                        /\ \A i \in DOMAIN oracle : oracle[i])
           /\ connected' = conn
           /\ queue' = st.q
           /\ last' = Last("connect", NoKey, NoDevice,
                           IF connected THEN "connected" ELSE outcome,
                           calls \o st.ev, st.result)
           /\ UNCHANGED <<mqtt, call, threads, handlers, devices, topics, lastwill, installing>> /\ Tracked

Connect == ConnectWith(Providers, BOOLEAN)

ConnectQuietly == ConnectWith({DefaultProvider}, {TRUE})

\* a disconnect that also empties the outbound queue
DisconnectDroppingQueue ==
    /\ connected' = FALSE
    /\ queue' = <<>>
    /\ last' = Last("disconnect", NoKey, NoDevice, "",
                    IF connected THEN <<Call("disconnect", NoKey)>> ELSE <<>>, "ok")
    /\ UNCHANGED <<mqtt, call, threads, handlers, devices, topics, lastwill, installing>> /\ Tracked

Disconnect ==
    /\ connected' = FALSE
    /\ last' = Last("disconnect", NoKey, NoDevice, "",
                    IF connected THEN <<Call("disconnect", NoKey)>> ELSE <<>>, "ok")
    /\ UNCHANGED <<mqtt, call, threads, handlers, devices, topics, lastwill, queue, installing>> /\ Tracked

\* -------------------------------------------------------------- add_device
\* the inbound topics of one device, in the order add_device collects them;
\* the variant leaves out the status codec
DeviceTopicsWithoutStatus(key) ==
    DataInboundTopics(key) \o RegistrationInboundTopics(key)
        \o FirmwareInboundTopics(key)

DeviceTopics(key) ==
    DataInboundTopics(key) \o RegistrationInboundTopics(key)
        \o FirmwareInboundTopics(key) \o StatusInboundTopics(key)

\* the guards of add_device, in source order.  The firmware guard reads
\* `self.install_firmware`, an attribute Wolk never sets: evaluating it
\* raises AttributeError whether or not a firmware handler was given.
\* The variant leaves out the duplicate-key test.
AddDeviceVerdictNoDuplicateTest(device) ==
    IF get_actuator_references(device) # <<>> /\ ~handlers.act
    THEN "refused"
    ELSE IF has_configurations(device) /\ ~handlers.conf
    THEN "refused"
    ELSE IF supports_firmware_update(device)
    THEN "attribute_error"
    ELSE "accepted"

AddDeviceVerdict(device) ==
    IF InSeq(device.key, DeviceKeys(devices))
    THEN "duplicate"
    ELSE IF get_actuator_references(device) # <<>> /\ ~handlers.act
    THEN "refused"
    ELSE IF has_configurations(device) /\ ~handlers.conf
    THEN "refused"
    ELSE IF supports_firmware_update(device)
    THEN "attribute_error"
    ELSE "accepted"

\* last will as add_device rebuilds it; the variant takes the keys from the
\* registry as it was before the append
LastWillAfterAddStale(device) ==
    make_last_will_message(DeviceKeys(devices))

LastWillAfterAdd(device) ==
    make_last_will_message(DeviceKeys(Append(devices, device)))

\* a variant that publishes the request on the old connection and
\* reconnects afterwards
EmitRegistrationBeforeReconnect(message, outcome, oracle) ==
    IF ~ConnectedCall(connected)
       THEN [st |-> St(put(queue, message), <<Put(message)>>, 1, "ok"),
             conn |-> connected]
       ELSE LET s1 == TryPublishThenStore(St(queue, <<>>, 1, "ok"), message,
                                          connected, oracle)
            IN [st |-> St(s1.q, Append(s1.ev, Call("reconnect", NoKey)),
                          s1.n, s1.result),
                conn |-> outcome = "ok"]

\* the registration request of an accepted device: queued when not
\* connected, else reconnect and publish, with the queue as fallback
EmitRegistration(message, outcome, oracle) ==
    IF ~ConnectedCall(connected)
       THEN [st |-> St(put(queue, message), <<Put(message)>>, 1, "ok"),
             conn |-> connected]
       ELSE LET conn == outcome = "ok"
                s1 == IF outcome = "raise"
                      THEN St(put(queue, message),
                              <<Call("reconnect", NoKey), Put(message)>>, 1, "ok")
                      ELSE St(queue, <<Call("reconnect", NoKey)>>, 1, "ok")
            IN [st |-> TryPublishThenStore(s1, message, conn, oracle),
                conn |-> conn]

AddDevice(device) ==
    \E outcome \in (IF connected THEN ConnectOutcomes ELSE {"ok"}),
       oracle \in PubOracles(IF connected THEN 1 ELSE 0) :
        LET verdict == AddDeviceVerdict(device)
            r == EmitRegistration(make_registration_message(device),
                                  outcome, oracle)
        IN IF verdict = "accepted"
           THEN /\ Len(r.st.q) <= MaxQueue
                /\ devices' = Append(devices, device)
                /\ topics' = add_subscription_topics(topics, DeviceTopics(device.key))
                /\ lastwill' = set_lastwill_message(lastwill, LastWillAfterAdd(device))
                /\ queue' = r.st.q
                /\ connected' = r.conn
                /\ last' = Last("add_device", device.key, device, "",
                                <<CallWith("add_subscription_topics", device.key,
                                           DeviceTopics(device.key))>> \o r.st.ev,
                                r.st.result)
                /\ UNCHANGED <<mqtt, call, threads, handlers, installing>> /\ Tracked
           ELSE /\ last' = Last("add_device", device.key, device, "", <<>>,
                                IF verdict = "attribute_error" THEN "raise" ELSE "ok")
                /\ UNCHANGED <<mqtt, call, threads, handlers, devices, topics, lastwill, queue,
                               connected, installing>> /\ Tracked

\* ----------------------------------------------------------- remove_device
RECURSIVE RemoveFirstWithKey(_, _)
RemoveFirstWithKey(devs, key) ==
    IF devs = <<>> THEN devs
    ELSE IF Head(devs).key = key THEN Tail(devs)
    ELSE <<Head(devs)>> \o RemoveFirstWithKey(Tail(devs), key)

remove_topics_for_device(ts, key) ==
    SelectSeq(ts, LAMBDA t : ~InSeq(t, DeviceTopics(key)))

RemoveDevice(key) ==
    \E outcome \in (IF connected THEN ConnectOutcomes ELSE {"ok"}) :
        IF ~InSeq(key, DeviceKeys(devices))
        THEN /\ last' = Last("remove_device", key, NoDevice, "", <<>>, "ok")
             /\ UNCHANGED <<mqtt, call, threads, handlers, devices, topics, lastwill, queue,
                            connected, installing>> /\ Tracked
        ELSE /\ devices' = RemoveFirstWithKey(devices, key)
             /\ topics' = remove_topics_for_device(topics, key)
             /\ lastwill' = set_lastwill_message(lastwill,
                                make_last_will_message(DeviceKeys(devices')))
             /\ connected' = (connected /\ outcome = "ok")
             /\ last' = Last("remove_device", key, NoDevice, "",
                             IF connected THEN <<Call("reconnect", NoKey)>> ELSE <<>>,
                             "ok")
             /\ UNCHANGED <<mqtt, call, threads, handlers, queue, installing>> /\ Tracked

\* ------------------------------------------------------ publish_* actions
\* what kind of answer the provider of a publish_* operation gave
ActuatorAnswerKind(act) ==
    IF act.state = "None" THEN "null_state"
    ELSE IF ~IsActuatorState(act.state) THEN "not_a_state"
    ELSE IF act.value = "None" THEN "null_value"
    ELSE "valid"

DeviceStatusAnswerKind(status) ==
    IF status = "None" THEN "not_a_status" ELSE "valid"

ConfigurationAnswerKind(conf) ==
    IF conf = <<"None">> THEN "null_configuration" ELSE "valid"

PublishActuatorStatus(key, reference) ==
    \E oracle \in PubOracles(IF connected THEN 1 ELSE 0), act \in ActuatorReturns :
        LET prov == [DefaultProvider EXCEPT !.act = act]
            st == publish_acutator_status(St(queue, <<>>, 1, "ok"), key, reference,
                                          connected, oracle, prov)
        IN /\ Len(st.q) <= MaxQueue
           /\ queue' = st.q
           /\ last' = Last("publish_acutator_status", key, NoDevice,
                           IF handlers.act THEN ActuatorAnswerKind(act) ELSE "",
                           st.ev, st.result)
           /\ UNCHANGED <<mqtt, call, threads, handlers, devices, topics, lastwill, connected, installing>> /\ Tracked

PublishDeviceStatus(key) ==
    \E oracle \in PubOracles(IF connected THEN 1 ELSE 0),
       status \in DeviceStatusReturns :
        LET prov == [DefaultProvider EXCEPT !.status = status]
            st == publish_device_status(St(queue, <<>>, 1, "ok"), key,
                                        connected, oracle, prov)
        IN /\ Len(st.q) <= MaxQueue
           /\ queue' = st.q
           /\ last' = Last("publish_device_status", key, NoDevice,
                           DeviceStatusAnswerKind(status),
                           st.ev, st.result)
           /\ UNCHANGED <<mqtt, call, threads, handlers, devices, topics, lastwill, connected, installing>> /\ Tracked

PublishConfiguration(key) ==
    \E oracle \in PubOracles(IF connected THEN 1 ELSE 0),
       conf \in ConfigurationReturns :
        LET prov == [DefaultProvider EXCEPT !.conf = conf]
            st == publish_configuration(St(queue, <<>>, 1, "ok"), key,
                                        connected, oracle, prov)
        IN /\ Len(st.q) <= MaxQueue
           /\ queue' = st.q
           /\ last' = Last("publish_configuration", key, NoDevice,
                           IF handlers.conf THEN ConfigurationAnswerKind(conf) ELSE "",
                           st.ev, st.result)
           /\ UNCHANGED <<mqtt, call, threads, handlers, devices, topics, lastwill, connected, installing>> /\ Tracked

\* ---------------------------------------------------------------- firmware
FirmwareUpdateStates == {"INSTALLATION", "COMPLETED", "ERROR", "ABORTED"}
TerminalStates == {"COMPLETED", "ERROR", "ABORTED"}
NotAStatus == FirmwareUpdateStatus("notAFirmwareUpdateStatus", "")
IsFirmwareUpdateStatus(status) == status.status \in FirmwareUpdateStates

\* what an installer may hand to on_install_fail
FailStatuses ==
    { FirmwareUpdateStatus("ERROR", "3"), FirmwareUpdateStatus("ABORTED", ""),
      FirmwareUpdateStatus("INSTALLATION", ""), NotAStatus }

on_install_success(st, key, conn, oracle, prov) ==
    LET entered == St(st.q, Append(st.ev, Call("on_install_success", key)),
                      st.n, st.result)
        s1 == TryPublishThenStore(entered,
                  make_update_message(key, FirmwareUpdateStatus("COMPLETED", "")),
                  conn, oracle)
        s2 == St(s1.q, Append(s1.ev, Call("get_firmware_version", key)),
                 s1.n, s1.result)
    IN IF prov.version = "" THEN s2
       ELSE TryPublishThenStore(s2, make_version_message(key, prov.version),
                                conn, oracle)

on_install_fail(st, key, status, conn, oracle) ==
    LET entered == St(st.q, Append(st.ev, Call("on_install_fail", key)),
                      st.n, st.result)
    IN IF ~IsFirmwareUpdateStatus(status) THEN entered
       ELSE TryPublishThenStore(entered, make_update_message(key, status),
                                conn, oracle)

\* the installer answers inside install_firmware ("success", "fail") or
\* after it returned ("later").  Inbound messages are delivered by the
\* transport's network loop, which runs only while connected.
InstallerAnswers == {"later", "success", "fail", "raises"}

InboundFirmwareInstall(key) ==
    \E oracle \in PubOracles(3), version \in VersionReturns,
       answer \in InstallerAnswers :
        LET prov == [DefaultProvider EXCEPT !.version = version]
            s1 == TryPublishThenStore(St(queue, <<>>, 1, "ok"),
                      make_update_message(key, FirmwareUpdateStatus("INSTALLATION", "")),
                      connected, oracle)
            s2 == St(s1.q, Append(s1.ev, Call("install_firmware", key)),
                     s1.n, s1.result)
            st == IF ~handlers.fw THEN Raise(s1, <<>>)
                  ELSE IF answer = "success"
                  THEN on_install_success(s2, key, connected, oracle, prov)
                  ELSE IF answer = "fail"
                  THEN on_install_fail(s2, key, FirmwareUpdateStatus("ERROR", "3"),
                                       connected, oracle)
                  ELSE IF answer = "raises"
                  THEN Raise(s1, <<CallRaise("install_firmware", key)>>)
                  ELSE s2
        IN /\ connected
           /\ Len(st.q) <= MaxQueue
           /\ queue' = st.q
           /\ installing' = IF handlers.fw /\ answer = "later"
                            THEN installing \cup {key} ELSE installing
           /\ last' = Last("inbound_firmware_install", key, NoDevice,
                           IF ~handlers.fw THEN ""
                           ELSE IF answer = "fail" THEN "ERROR" ELSE "",
                           st.ev, st.result)
           /\ UNCHANGED <<mqtt, call, threads, handlers, devices, topics, lastwill, connected>> /\ Tracked

InboundFirmwareAbort(key) ==
    \E oracle \in PubOracles(1), honoured \in BOOLEAN :
        LET s1 == St(queue, <<Call("abort_installation", key)>>, 1, "ok")
            aborts == handlers.fw /\ honoured /\ key \in installing
            st == IF ~handlers.fw THEN Raise(St(queue, <<>>, 1, "ok"), <<>>)
                  ELSE IF aborts
                  THEN on_install_fail(s1, key, FirmwareUpdateStatus("ABORTED", ""),
                                       connected, oracle)
                  ELSE s1
        IN /\ connected
           /\ Len(st.q) <= MaxQueue
           /\ queue' = st.q
           /\ installing' = IF aborts THEN installing \ {key} ELSE installing
           /\ last' = Last("inbound_firmware_abort", key, NoDevice,
                           IF aborts THEN "ABORTED" ELSE "", st.ev, st.result)
           /\ UNCHANGED <<mqtt, call, threads, handlers, devices, topics, lastwill, connected>> /\ Tracked

OnInstallSuccess(key) ==
    \E oracle \in PubOracles(2), version \in VersionReturns :
        LET prov == [DefaultProvider EXCEPT !.version = version]
            st == on_install_success(St(queue, <<>>, 1, "ok"), key, connected,
                                     oracle, prov)
        IN /\ handlers.fw
           /\ key \in installing
           /\ Len(st.q) <= MaxQueue
           /\ queue' = st.q
           /\ installing' = installing \ {key}
           /\ last' = Last("on_install_success", key, NoDevice, "", st.ev, st.result)
           /\ UNCHANGED <<mqtt, call, threads, handlers, devices, topics, lastwill, connected>> /\ Tracked

OnInstallFail(key, status) ==
    \E oracle \in PubOracles(1) :
        LET st == on_install_fail(St(queue, <<>>, 1, "ok"), key, status,
                                  connected, oracle)
        IN /\ handlers.fw
           /\ key \in installing
           /\ Len(st.q) <= MaxQueue
           /\ queue' = st.q
           /\ installing' = installing \ {key}
           /\ last' = Last("on_install_fail", key, NoDevice, status.status,
                           st.ev, st.result)
           /\ UNCHANGED <<mqtt, call, threads, handlers, devices, topics, lastwill, connected>> /\ Tracked

\* ------------------------------------------------- inbound data commands
\* a user callback returns, raises RuntimeError, or raises another exception
CallbackOutcomes == {"returns", "RuntimeError", "Exception"}

\* a call of a handler outside any try block: whatever it raises propagates
HandlerCall(st, f, key, outcome) ==
    IF outcome = "returns"
    THEN St(st.q, Append(st.ev, Call(f, key)), st.n, st.result)
    ELSE Raise(st, <<CallRaise(f, key)>>)

\* the same for a handler that is given arguments after the device key
HandlerCallWith(st, f, key, args, outcome) ==
    IF outcome = "returns"
    THEN St(st.q, Append(st.ev, CallWith(f, key, args)), st.n, st.result)
    ELSE Raise(st, <<[CallRaise(f, key) EXCEPT !.a = args]>>)

\* `try: publish_x(...) except RuntimeError: log`, the provider called by
\* publish_x returning (`published` is then what publish_x did) or raising
TryPublishOperation(st, f, key, outcome, published) ==
    IF st.result = "raise" THEN st
    ELSE IF outcome = "returns" THEN St(published.q, published.ev, published.n, "ok")
    ELSE IF outcome = "RuntimeError"
    THEN St(st.q, Append(st.ev, CallRaise(f, key)), st.n, "ok")
    ELSE Raise(st, <<CallRaise(f, key)>>)

\* the answers of callbacks that are not called are left at their defaults
Relevant(present, handled, provided, answer, default) ==
    /\ (~present => handled = "returns")
    /\ (~present \/ handled # "returns" => provided = "returns")
    /\ (~present \/ handled # "returns" \/ provided # "returns" => answer = default)

\* ActuatorCommand(reference, command, value)
ActuatorCommand(reference, command, value) ==
    [reference |-> reference, command |-> command, value |-> value]

\* the actuator-set branch once the command and the device key have been
\* taken from the message; `received` is the record of the message
InboundActuatorSetCommand(key, command, received) ==
    \E oracle \in PubOracles(1), act \in ActuatorReturns,
       handled \in CallbackOutcomes, provided \in CallbackOutcomes :
        LET prov == [DefaultProvider EXCEPT !.act = act]
            st0 == St(queue, received, 1, "ok")
            s1 == HandlerCallWith(st0, "actuation_handler", key,
                                  <<command.reference, command.value>>, handled)
            st == IF ~handlers.act THEN st0
                  ELSE TryPublishOperation(s1, "acutator_status_provider", key,
                           provided,
                           publish_acutator_status(s1, key, command.reference,
                                                   connected, oracle, prov))
        IN /\ connected
           /\ Relevant(handlers.act, handled, provided, act, DefaultProvider.act)
           /\ Len(st.q) <= MaxQueue
           /\ queue' = st.q
           /\ last' = Last("inbound_actuator_set", key, NoDevice, "", st.ev, st.result)
           /\ UNCHANGED <<mqtt, call, threads, handlers, devices, topics, lastwill, connected, installing>> /\ Tracked

InboundActuatorSet(key, reference) ==
    InboundActuatorSetCommand(key, ActuatorCommand(reference, "SET", "1"), <<>>)

InboundActuatorGet(key, reference) ==
    \E oracle \in PubOracles(1), act \in ActuatorReturns,
       provided \in CallbackOutcomes :
        LET prov == [DefaultProvider EXCEPT !.act = act]
            st0 == St(queue, <<>>, 1, "ok")
            st == IF ~handlers.act THEN st0
                  ELSE TryPublishOperation(st0, "acutator_status_provider", key,
                           provided,
                           publish_acutator_status(st0, key, reference, connected,
                                                   oracle, prov))
        IN /\ connected
           /\ Relevant(handlers.act, "returns", provided, act, DefaultProvider.act)
           /\ Len(st.q) <= MaxQueue
           /\ queue' = st.q
           /\ last' = Last("inbound_actuator_get", key, NoDevice, "", st.ev, st.result)
           /\ UNCHANGED <<mqtt, call, threads, handlers, devices, topics, lastwill, connected, installing>> /\ Tracked

InboundConfigurationSet(key) ==
    \E oracle \in PubOracles(1), conf \in ConfigurationReturns,
       handled \in CallbackOutcomes, provided \in CallbackOutcomes :
        LET prov == [DefaultProvider EXCEPT !.conf = conf]
            st0 == St(queue, <<>>, 1, "ok")
            s1 == HandlerCall(st0, "configuration_handler", key, handled)
            st == IF ~handlers.conf THEN st0
                  ELSE TryPublishOperation(s1, "configuration_provider", key,
                           provided,
                           publish_configuration(s1, key, connected, oracle, prov))
        IN /\ connected
           /\ Relevant(handlers.conf, handled, provided, conf, DefaultProvider.conf)
           /\ Len(st.q) <= MaxQueue
           /\ queue' = st.q
           /\ last' = Last("inbound_configuration_set", key, NoDevice, "",
                           st.ev, st.result)
           /\ UNCHANGED <<mqtt, call, threads, handlers, devices, topics, lastwill, connected, installing>> /\ Tracked

InboundConfigurationGet(key) ==
    \E oracle \in PubOracles(1), conf \in ConfigurationReturns,
       provided \in CallbackOutcomes :
        LET prov == [DefaultProvider EXCEPT !.conf = conf]
            st0 == St(queue, <<>>, 1, "ok")
            st == IF ~handlers.conf THEN st0
                  ELSE TryPublishOperation(st0, "configuration_provider", key,
                           provided,
                           publish_configuration(st0, key, connected, oracle, prov))
        IN /\ connected
           /\ Relevant(handlers.conf, "returns", provided, conf, DefaultProvider.conf)
           /\ Len(st.q) <= MaxQueue
           /\ queue' = st.q
           /\ last' = Last("inbound_configuration_get", key, NoDevice, "",
                           st.ev, st.result)
           /\ UNCHANGED <<mqtt, call, threads, handlers, devices, topics, lastwill, connected, installing>> /\ Tracked

\* the device status provider is called outside any try block; a status
\* that is None ends the handling
InboundDeviceStatusRequest(key) ==
    \E oracle \in PubOracles(1), status \in DeviceStatusReturns,
       provided \in CallbackOutcomes :
        LET st0 == St(queue, <<>>, 1, "ok")
            s1 == HandlerCall(st0, "device_status_provider", key, provided)
            st == IF s1.result = "raise" \/ status = "None" THEN s1
                  ELSE TryPublishThenStore(s1,
                           make_device_status_response_message(key, status),
                           connected, oracle)
        IN /\ connected
           /\ Relevant(TRUE, "returns", provided, status, DefaultProvider.status)
           /\ Len(st.q) <= MaxQueue
           /\ queue' = st.q
           /\ last' = Last("inbound_device_status_request", key, NoDevice, "",
                           st.ev, st.result)
           /\ UNCHANGED <<mqtt, call, threads, handlers, devices, topics, lastwill, connected, installing>> /\ Tracked

\* =================================================== draining the queue
AllHandlers == [act : {TRUE}, conf : {TRUE}, fw : {TRUE}]

NextDrain ==
    \/ \E key \in Keys : AddSensorReading(key, RefT, "23", "None")
    \/ ConnectQuietly
    \/ Disconnect
    \/ PublishAll
    \/ \E key \in Keys : PublishKey(key)

SpecDrain == InitWith(AllHandlers) /\ [][NextDrain]_vars

\* ============================ queue operations called from two threads
\* OutboundMessageDeque holds no lock.  One call on collections.deque
\* (append, popleft, remove, len, `in`, one step of its iterator) is one
\* step; between two of them the other thread may run.
Returned(t, op, acc, result) ==
    [IdleThread EXCEPT !.op = op, !.acc = acc, !.result = result]

\* the deque was changed by thread t: iterators over it that are open in
\* other threads are now invalid ("deque mutated during iteration")
AfterMutation(t, mine, q) ==
    [u \in Threads |->
        IF u = t THEN mine
        ELSE IF threads[u].pc = "iterate" THEN [threads[u] EXCEPT !.stale = TRUE]
        ELSE threads[u]]

QueueMessages ==
    { make_sensor_reading_message(KeyA, RefT, "23", "None"),
      make_sensor_reading_message(KeyB, RefT, "23", "None") }

\* put: `self.queue.append(message); return True`
ThreadPut(t, m) ==
    /\ threads[t].pc = "idle"
    /\ Len(queue) < MaxQueue
    /\ queue' = put(queue, m)
    /\ threads' = AfterMutation(t, Returned(t, "put", <<>>, "ok"), queue')
    /\ UNCHANGED <<mqtt, call, session, handlers, devices, topics, lastwill, connected, installing, last>>

\* get: `return self.queue.popleft()`, None when empty
ThreadGet(t) ==
    /\ threads[t].pc = "idle"
    /\ queue' = get(queue).queue
    /\ threads' = IF get(queue).none
                  THEN [threads EXCEPT ![t] = Returned(t, "get", <<>>, "ok")]
                  ELSE AfterMutation(t, Returned(t, "get", <<get(queue).message>>,
                                                 "ok"), queue')
    /\ UNCHANGED <<mqtt, call, session, handlers, devices, topics, lastwill, connected, installing, last>>

\* remove, first step: `if message in self.queue`
ThreadRemoveTest(t, m) ==
    /\ threads[t].pc = "idle"
    /\ threads' = [threads EXCEPT ![t] =
                      IF InSeq(m, queue)
                      THEN [IdleThread EXCEPT !.pc = "remove", !.op = "remove",
                                              !.m = m]
                      ELSE Returned(t, "remove", <<>>, "ok")]
    /\ UNCHANGED <<mqtt, call, session, handlers, devices, topics, lastwill, queue, connected,
                   installing, last>>

\* remove, second step: `self.queue.remove(message)`, which raises
\* ValueError when the message is not in the deque
ThreadRemoveDo(t) ==
    /\ threads[t].pc = "remove"
    /\ queue' = remove(queue, threads[t].m)
    /\ threads' = IF InSeq(threads[t].m, queue)
                  THEN AfterMutation(t, Returned(t, "remove", <<>>, "ok"), queue')
                  ELSE [threads EXCEPT ![t] = Returned(t, "remove", <<>>, "raise")]
    /\ UNCHANGED <<mqtt, call, session, handlers, devices, topics, lastwill, connected, installing, last>>

\* get_messages_for_device, first step: `if self.queue_size() == 0: return []`
ThreadFilterSize(t, key) ==
    /\ threads[t].pc = "idle"
    /\ threads' = [threads EXCEPT ![t] =
                      IF queue_size(queue) = 0
                      THEN Returned(t, "get_messages_for_device", <<>>, "ok")
                      ELSE [IdleThread EXCEPT !.pc = "sized",
                                              !.op = "get_messages_for_device",
                                              !.key = key, !.seen = {queue}]]
    /\ UNCHANGED <<mqtt, call, session, handlers, devices, topics, lastwill, queue, connected,
                   installing, last>>

\* get_messages_for_device, `for message in self.queue`: the iterator is
\* made.  `seen` keeps the queue as it was at the size test and as it is now.
ThreadFilterIter(t) ==
    /\ threads[t].pc = "sized"
    /\ threads' = [threads EXCEPT ![t].pc = "iterate", ![t].i = 1,
                                  ![t].stale = FALSE,
                                  ![t].seen = threads[t].seen \cup {queue}]
    /\ UNCHANGED <<mqtt, call, session, handlers, devices, topics, lastwill, queue, connected,
                   installing, last>>

\* get_messages_for_device, one turn of the loop: the iterator raises
\* RuntimeError when the deque changed since it was made, else yields the
\* next message, which is kept when its topic contains the key
ThreadFilterNext(t) ==
    /\ threads[t].pc = "iterate"
    /\ threads' = [threads EXCEPT ![t] =
                      IF threads[t].stale
                      THEN Returned(t, "get_messages_for_device", <<>>, "raise")
                      ELSE IF threads[t].i > Len(queue)
                      THEN Returned(t, "get_messages_for_device", threads[t].acc,
                               IF \E q \in threads[t].seen :
                                      threads[t].acc =
                                          get_messages_for_device(q, threads[t].key)
                               THEN "ok" ELSE "torn")
                      ELSE [threads[t] EXCEPT
                               !.i = threads[t].i + 1,
                               !.acc = threads[t].acc \o
                                   get_messages_for_device(<<queue[threads[t].i]>>,
                                                           threads[t].key)]]
    /\ UNCHANGED <<mqtt, call, session, handlers, devices, topics, lastwill, queue, connected,
                   installing, last>>

\* queue_size: `return len(self.queue)`
ThreadQueueSize(t) ==
    /\ threads[t].pc = "idle"
    /\ threads' = [threads EXCEPT ![t] =
                      [Returned(t, "queue_size", <<>>, "ok")
                          EXCEPT !.i = queue_size(queue)]]
    /\ UNCHANGED <<mqtt, call, session, handlers, devices, topics, lastwill, queue, connected,
                   installing, last>>

NextQueueThreads ==
    \/ \E t \in Threads, m \in QueueMessages : ThreadPut(t, m)
    \/ \E t \in Threads : ThreadGet(t)
    \/ \E t \in Threads, m \in QueueMessages : ThreadRemoveTest(t, m)
    \/ \E t \in Threads : ThreadRemoveDo(t)
    \/ \E t \in Threads : ThreadFilterSize(t, KeyA)
    \/ \E t \in Threads : ThreadFilterIter(t)
    \/ \E t \in Threads : ThreadFilterNext(t)
    \/ \E t \in Threads : ThreadQueueSize(t)

SpecQueueThreads == InitWith(AllHandlers) /\ [][NextQueueThreads]_vars

\* ================================== add_device called from two threads
\* Wolk holds no lock either.  The duplicate test and the guards of
\* add_device read the registry; the append and what follows it come later,
\* and the other thread may run in between.  Each thread calls add_device
\* once.
ThreadAddCheck(t, device) ==
    /\ threads[t].pc = "idle" /\ threads[t].op = "none"
    /\ threads' = [threads EXCEPT ![t] =
                      IF AddDeviceVerdict(device) = "accepted"
                      THEN [IdleThread EXCEPT !.pc = "append", !.op = "add_device",
                                              !.dev = device]
                      ELSE [Returned(t, "add_device", <<>>,
                                     IF AddDeviceVerdict(device) = "attribute_error"
                                     THEN "raise" ELSE "ok")
                               EXCEPT !.dev = device]]
    /\ UNCHANGED <<mqtt, call, session, handlers, devices, topics, lastwill, queue, connected,
                   installing, last>>

ThreadAddAppend(t) ==
    \E outcome \in (IF connected THEN ConnectOutcomes ELSE {"ok"}),
       oracle \in PubOracles(IF connected THEN 1 ELSE 0) :
        LET device == threads[t].dev
            r == EmitRegistration(make_registration_message(device),
                                  outcome, oracle)
        IN /\ threads[t].pc = "append"
           /\ Len(r.st.q) <= MaxQueue
           /\ devices' = Append(devices, device)
           /\ topics' = add_subscription_topics(topics, DeviceTopics(device.key))
           /\ lastwill' = set_lastwill_message(lastwill, LastWillAfterAdd(device))
           /\ queue' = r.st.q
           /\ connected' = r.conn
           /\ threads' = [threads EXCEPT ![t] =
                              [Returned(t, "add_device", <<>>, r.st.result)
                                  EXCEPT !.dev = device, !.events = r.st.ev]]
           /\ UNCHANGED <<mqtt, call, session, handlers, installing, last>>

NextAddThreads ==
    \/ \E t \in Threads, device \in {DevA, DevA2, DevA0} : ThreadAddCheck(t, device)
    \/ \E t \in Threads : ThreadAddAppend(t)
    \/ \E key \in {KeyA, KeyB} : AddSensorReading(key, RefT, "23", "None")
    \/ PublishAll

SpecAddThreads == InitWith(AllHandlers) /\ [][NextAddThreads]_vars

\* ================================================ readings and alarms
RefHH == <<"HH">>

NextIngest ==
    \/ \E key \in {KeyA, KeyB}, value \in {"23", "24"} :
           AddSensorReading(key, RefT, value, "None")
    \/ \E key \in {KeyA, KeyB}, active \in {"true", "false"} :
           AddAlarm(key, RefHH, active, "None")
    \/ ConnectQuietly
    \/ Disconnect
    \/ PublishAll

SpecIngest == InitWith(AllHandlers) /\ [][NextIngest]_vars

\* =============================================== the publish_* operations
NextPublish ==
    \/ ConnectQuietly
    \/ Disconnect
    \/ \E key \in {KeyA, KeyB} : PublishActuatorStatus(key, RefSW)
    \/ PublishDeviceStatus(KeyA)
    \/ PublishConfiguration(KeyA)
    \/ PublishAll

SpecPublish ==
    InitWith([act : BOOLEAN, conf : BOOLEAN, fw : {FALSE}]) /\ [][NextPublish]_vars

\* ========================================================= the registry
NextRegistry ==
    \/ \E device \in DeviceUniverse : AddDevice(device)
    \/ \E key \in Keys : RemoveDevice(key)
    \/ ConnectQuietly
    \/ Disconnect
    \/ PublishAll

SpecRegistry == Init /\ [][NextRegistry]_vars

\* ============================================================== firmware
NextFirmware ==
    \/ ConnectQuietly
    \/ Disconnect
    \/ InboundFirmwareInstall(KeyB)
    \/ InboundFirmwareAbort(KeyB)
    \/ OnInstallSuccess(KeyB)
    \/ \E status \in FailStatuses : OnInstallFail(KeyB, status)
    \/ PublishAll

SpecFirmware ==
    InitWith([act : {FALSE}, conf : {FALSE}, fw : BOOLEAN]) /\ [][NextFirmware]_vars

\* =============================================================== connect
\* the messages left in the queue by failed publishes are capped
QueueWithin(n) == Len(queue') <= n

NextConnect ==
    \/ \E device \in {DevA, DevA0, DevB} :
           AddDevice(device) /\ QueueWithin(MaxConnectQueue)
    \/ Connect /\ QueueWithin(MaxConnectQueue)
    \/ Disconnect
    \/ PublishAll

SpecConnect == InitWith(AllHandlers) /\ [][NextConnect]_vars

\* ====================================================== inbound messages
NextInbound ==
    \/ ConnectQuietly
    \/ Disconnect
    \/ InboundActuatorSet(KeyA, RefSW) /\ QueueWithin(MaxInboundQueue)
    \/ InboundActuatorGet(KeyA, RefSW) /\ QueueWithin(MaxInboundQueue)
    \/ InboundConfigurationSet(KeyA) /\ QueueWithin(MaxInboundQueue)
    \/ InboundConfigurationGet(KeyA) /\ QueueWithin(MaxInboundQueue)
    \/ InboundDeviceStatusRequest(KeyA) /\ QueueWithin(MaxInboundQueue)
    \/ InboundFirmwareInstall(KeyB) /\ QueueWithin(MaxInboundQueue)
    \/ InboundFirmwareAbort(KeyB) /\ QueueWithin(MaxInboundQueue)
    \/ PublishAll

\* constructed with every optional callback, or with none of them
InboundConfigs ==
    { [act |-> TRUE, conf |-> TRUE, fw |-> TRUE],
      [act |-> FALSE, conf |-> FALSE, fw |-> FALSE] }

SpecInbound == InitWith(InboundConfigs) /\ [][NextInbound]_vars

\* ------------------------------------------------ reading the last handler
RECURSIVE PublishedOf(_)
PublishedOf(events) ==
    IF events = <<>> THEN <<>>
    ELSE (IF Head(events).t = "pub" THEN <<Head(events).m>> ELSE <<>>)
         \o PublishedOf(Tail(events))

RECURSIVE QueuedOf(_)
QueuedOf(events) ==
    IF events = <<>> THEN <<>>
    ELSE (IF Head(events).t = "put" THEN <<Head(events).m>> ELSE <<>>)
         \o QueuedOf(Tail(events))

HasPubFail(events) == \E i \in 1..Len(events) : events[i].t = "pubfail"

\* q without the first occurrence of each message of ms
RECURSIVE WithoutEach(_, _)
WithoutEach(q, ms) ==
    IF ms = <<>> THEN q
    ELSE WithoutEach(
             IF InSeq(Head(ms), q)
             THEN LET i == CHOOSE j \in 1..Len(q) :
                               q[j] = Head(ms) /\ \A h \in 1..(j - 1) : q[h] # Head(ms)
                  IN SubSeq(q, 1, i - 1) \o SubSeq(q, i + 1, Len(q))
             ELSE q,
             Tail(ms))

\* C2: when the transport's publish returns false during publish(), draining
\* stops there, the message that failed is still in the queue, in its place
\* among the messages that were not published, and no later message was
\* published.
C2_FailedMessageStaysInPlace ==
    (last.op = "publish" /\ HasPubFail(last.events)) =>
        LET n == Len(last.events)
        IN /\ last.events[n].t = "pubfail"
           /\ \A i \in 1..(n - 1) : last.events[i].t = "pub"
           /\ InSeq(last.events[n].m, queue)
           /\ queue = WithoutEach(last.pre, PublishedOf(last.events))

\* C3: connected and with every transport publish succeeding, publish()
\* without a key hands every queued message to the transport exactly once,
\* in queue order, and leaves the queue empty.
C3_DrainAllPublishesEachOnce ==
    (last.op = "publish" /\ last.key = NoKey /\ last.conn
        /\ ~HasPubFail(last.events)) =>
        /\ PublishedOf(last.events) = last.pre
        /\ queue = <<>>

\* C4: connected and with every transport publish succeeding, publish(key)
\* hands to the transport exactly the queued messages whose topic contains
\* key, in queue order, removes exactly those and keeps the others in order.
C4_KeyedDrainSelectsByKey ==
    (last.op = "publish" /\ last.key # NoKey /\ last.conn
        /\ ~HasPubFail(last.events)) =>
        /\ PublishedOf(last.events) =
               SelectSeq(last.pre, LAMBDA m : Contains(m.topic, last.key))
        /\ queue = SelectSeq(last.pre, LAMBDA m : ~Contains(m.topic, last.key))

\* a keyed drain that published two messages around one it had to leave
C4_Witness ==
    /\ last.op = "publish" /\ last.key = KeyA /\ last.conn
    /\ ~HasPubFail(last.events)
    /\ Len(last.pre) = 3
    /\ ~Contains(last.pre[2].topic, KeyA)
    /\ Len(PublishedOf(last.events)) = 2
    /\ Len(queue) = 1

\* ----------------------------------------------------------------- C1
PublishOps ==
    {"publish_acutator_status", "publish_configuration", "publish_device_status"}

\* C1: a publish_* call that returns without raising either had its message
\* accepted by the transport or appended it to the outbound queue: exactly
\* one of the two, whether connected, disconnected or connected with a
\* failing publish.
C1_PublishedXorQueued ==
    (last.op \in PublishOps /\ last.result = "ok") =>
        /\ Len(PublishedOf(last.events)) + Len(QueuedOf(last.events)) = 1
        /\ queue = last.pre \o QueuedOf(last.events)
        /\ (PublishedOf(last.events) # <<>> => last.conn)

\* connected, the transport refused the message, and it went to the queue
C1_Witness ==
    /\ last.op = "publish_configuration" /\ last.result = "ok"
    /\ last.conn /\ HasPubFail(last.events)
    /\ queue = Append(last.pre, make_configuration_message(KeyA, <<"c:", "5">>))

\* ----------------------------------------------------------------- C5
IsUpdateStatus(m, key, states) ==
    /\ m.topic = FIRMWARE_UPDATE_STATUS_TOPIC_ROOT \o DEVICE_PATH_PREFIX \o key
    /\ Len(m.payload) >= 2
    /\ m.payload[2] \in states

\* indices of the events of kinds `kinds` that carry an update status in `states`
StatusEvents(events, kinds, key, states) ==
    { i \in 1..Len(events) :
        events[i].t \in kinds /\ IsUpdateStatus(events[i].m, key, states) }

CallIndex(events, f) ==
    { i \in 1..Len(events) : events[i].t = "call" /\ events[i].f = f }

\* the claim about one handler, `kinds` saying what counts as the message
\* having gone out
FirmwareStatusesExactlyOnce(kinds) ==
    /\ (last.op = "inbound_firmware_install" =>
          \A c \in CallIndex(last.events, "install_firmware") :
              Cardinality({ i \in StatusEvents(last.events, kinds, last.key,
                                               {"INSTALLATION"}) : i < c }) = 1)
    /\ \A c \in CallIndex(last.events, "on_install_success") :
          Cardinality({ i \in StatusEvents(last.events, kinds, last.key,
                                           TerminalStates) : i > c }) = 1
    /\ (last.arg \in TerminalStates =>
          \A c \in CallIndex(last.events, "on_install_fail") :
              Cardinality({ i \in StatusEvents(last.events, kinds, last.key,
                                               TerminalStates) : i > c }) = 1)

C6_LastWillListsRegistry ==
    (last.op \in {"add_device", "remove_device"}) =>
        /\ lastwill.topic = <<"lastwill">>
        /\ lastwill.payload = JsonDumpsList(DeviceKeys(devices))

\* a removal that left one of two devices
C6_Witness ==
    /\ last.op = "remove_device"
    /\ DeviceKeys(devices) = <<KeyA0>>
    /\ lastwill.payload = <<"[", "\"", "a", "0", "\"", "]">>

\* ----------------------------------------------------------------- C7
ToSet(seq) == { seq[i] : i \in 1..Len(seq) }

CodecTopics(key) ==
    ToSet(DataInboundTopics(key)) \cup ToSet(RegistrationInboundTopics(key))
        \cup ToSet(FirmwareInboundTopics(key)) \cup ToSet(StatusInboundTopics(key))

\* C7: the topics registered with the transport are exactly the inbound
\* topics the four codecs return for the keys of the registered devices.
C7_TopicsMatchRegistry ==
    ToSet(topics) = UNION { CodecTopics(key) : key \in ToSet(DeviceKeys(devices)) }

\* two accepted devices, a refused or failed add on the way, then a removal
C7_Witness ==
    /\ last.op = "remove_device"
    /\ DeviceKeys(devices) = <<KeyA>>
    /\ Len(topics) = 8
    /\ ~handlers.act

\* ----------------------------------------------------------------- C8
Occurrences(seq, x) == Cardinality({ i \in 1..Len(seq) : seq[i] = x })

\* C8: an add_device that accepts a device emits its registration request
\* exactly once: accepted by the transport, or put in the queue once; never
\* both, never twice.
C8_OneRegistrationRequest ==
    [][ (last'.op = "add_device" /\ devices' = Append(devices, last'.dev)) =>
          LET m == make_registration_message(last'.dev)
          IN Occurrences(PublishedOf(last'.events), m)
               + Occurrences(QueuedOf(last'.events), m) = 1 ]_vars

\* ----------------------------------------------------------------- C9
CapabilitiesHaveCallbacks(device) ==
    /\ (device.actuators # <<>> => handlers.act)
    /\ (device.configurations => handlers.conf)
    /\ (device.firmware => handlers.fw)

\* C9: a device with a new key is appended to the registry iff every
\* capability it declares has its callbacks; when one is missing add_device
\* returns normally and changes nothing.
C9_AcceptedIffCallbacks ==
    [][ (last'.op = "add_device" /\ ~InSeq(last'.key, DeviceKeys(devices))) =>
          /\ (devices' = Append(devices, last'.dev)
                <=> CapabilitiesHaveCallbacks(last'.dev))
          /\ (~CapabilitiesHaveCallbacks(last'.dev) =>
                /\ last'.result = "ok"
                /\ UNCHANGED <<devices, topics, lastwill, queue>>) ]_vars

\* ----------------------------------------------------------------- C10
UniqueKeys(devs) ==
    \A i, j \in 1..Len(devs) : devs[i].key = devs[j].key => i = j

\* C10: add_device with a key already in the registry changes nothing and
\* makes no transport call; no two registered devices ever share a key.
C10_DuplicateAddIsNoOp ==
    [][ /\ (last'.op = "add_device" /\ InSeq(last'.key, DeviceKeys(devices))) =>
              /\ UNCHANGED <<devices, topics, lastwill, queue, connected>>
              /\ last'.events = <<>>
              /\ last'.result = "ok"
        /\ UniqueKeys(devices') ]_vars

\* a second device with the key of a registered one, added while connected
C10_Witness ==
    /\ last.op = "add_device" /\ last.dev = DevA2 /\ last.conn
    /\ InSeq(DevA, devices)
    /\ last.events = <<>>

\* ----------------------------------------------------------------- C11
IngestOps == {"add_sensor_reading", "add_alarm"}

HasPutFail(events) == \E i \in 1..Len(events) : events[i].t = "putfail"

\* C11: add_sensor_reading and add_alarm never call the transport's publish,
\* connected or not; a call that succeeds appends exactly one message at the
\* back of the outbound queue; a call fails exactly when the queue's put
\* answered false, and then the queue is as it was.
C11_IngestOnlyEnqueues ==
    (last.op \in IngestOps) =>
        /\ PublishedOf(last.events) = <<>>
        /\ ~HasPubFail(last.events)
        /\ (last.result = "ok" =>
              /\ Len(QueuedOf(last.events)) = 1
              /\ queue = Append(last.pre, QueuedOf(last.events)[1]))
        /\ (last.result = "raise" <=> HasPutFail(last.events))
        /\ (last.result = "raise" => queue = last.pre)

\* an alarm stored while connected, behind a reading already in the queue
C11_Witness ==
    /\ last.op = "add_alarm" /\ last.conn /\ last.result = "ok"
    /\ Len(last.pre) = 1
    /\ queue = Append(last.pre, make_alarm_message(KeyB, RefHH, "true", "None"))
    /\ queue[1].topic = SENSOR_READING \o DEVICE_PATH_PREFIX \o KeyA
                            \o REFERENCE_PATH_PREFIX \o RefT

\* ----------------------------------------------------------------- C12
InboundOps ==
    {"inbound_actuator_set", "inbound_actuator_get", "inbound_configuration_set",
     "inbound_configuration_get", "inbound_device_status_request",
     "inbound_firmware_install", "inbound_firmware_abort"}

CallbackRaised(events) == \E i \in 1..Len(events) : events[i].t = "callraise"

\* C12: an exception raised by a user callback while an inbound message is
\* handled is caught inside _on_inbound_message, which returns normally.
C12_CallbackExceptionsSwallowed ==
    (last.op \in InboundOps /\ CallbackRaised(last.events)) => last.result = "ok"

\* ----------------------------------------------------------------- C13
BranchCallbacksMissing ==
    \/ last.op \in {"inbound_actuator_set", "inbound_actuator_get"} /\ ~handlers.act
    \/ last.op \in {"inbound_configuration_set", "inbound_configuration_get"}
           /\ ~handlers.conf
    \/ last.op \in {"inbound_firmware_install", "inbound_firmware_abort"}
           /\ ~handlers.fw

\* C13: an inbound message whose branch has no callbacks is handled by
\* returning normally: no callback is invoked, nothing is published and
\* nothing is queued.
C13_MissingCallbacksNoAction ==
    BranchCallbacksMissing =>
        /\ last.result = "ok"
        /\ last.events = <<>>
        /\ queue = last.pre

\* ----------------------------------------------------------------- C14
\* the messages a handler emitted: handed to the transport, or put in the
\* queue
RECURSIVE EmittedOf(_)
EmittedOf(events) ==
    IF events = <<>> THEN <<>>
    ELSE (IF Head(events).t \in {"pub", "put"} THEN <<Head(events).m>> ELSE <<>>)
         \o EmittedOf(Tail(events))

RECURSIVE TopicsOf(_)
TopicsOf(ms) ==
    IF ms = <<>> THEN <<>> ELSE <<Head(ms).topic>> \o TopicsOf(Tail(ms))

RECURSIVE ActuatorStatusTopics(_, _)
ActuatorStatusTopics(key, refs) ==
    IF refs = <<>> THEN <<>>
    ELSE <<ACTUATOR_STATUS \o DEVICE_PATH_PREFIX \o key
               \o REFERENCE_PATH_PREFIX \o Head(refs)>>
         \o ActuatorStatusTopics(key, Tail(refs))

\* per device: status, one actuator status per actuator, configuration if
\* declared, firmware version if supported
RECURSIVE StateTopics(_)
StateTopics(devs) ==
    IF devs = <<>> THEN <<>>
    ELSE LET d == Head(devs)
         IN <<DEVICE_STATUS_UPDATE_TOPIC_ROOT \o DEVICE_PATH_PREFIX \o d.key>>
            \o ActuatorStatusTopics(d.key, d.actuators)
            \o (IF d.configurations
                THEN <<CONFIGURATION_STATUS \o DEVICE_PATH_PREFIX \o d.key>>
                ELSE <<>>)
            \o (IF d.firmware
                THEN <<FIRMWARE_VERSION_UPDATE_TOPIC_ROOT \o DEVICE_PATH_PREFIX \o d.key>>
                ELSE <<>>)
            \o StateTopics(Tail(devs))

ConnectStepFailed ==
    \/ last.arg \in {"false", "raise"}
    \/ /\ last.arg \in {"ok", "connected"}
       /\ TopicsOf(EmittedOf(last.events)) # StateTopics(devices)

\* C15: a step of connect() that fails is propagated to the caller as an
\* error.
C15_ConnectFailurePropagates ==
    (last.op = "connect" /\ ConnectStepFailed) => last.result = "raise"

\* ----------------------------------------------------------------- C16
\* C16: connect() while connected and disconnect() while disconnected make no
\* call on the transport, publish and queue nothing, and leave the
\* connection state as it was.
C16_ConnectDisconnectIdempotent ==
    /\ (last.op = "connect" /\ last.conn) =>
          /\ last.events = <<>>
          /\ queue = last.pre
          /\ connected
    /\ (last.op = "disconnect" /\ ~last.conn) =>
          /\ last.events = <<>>
          /\ queue = last.pre
          /\ ~connected

\* ----------------------------------------------------------------- C17
InvalidAnswers ==
    {"null_state", "null_value", "not_a_state", "not_a_status", "null_configuration"}

\* C17: when the provider called by a publish_* operation returns an invalid
\* value (a null state, a null value or a state outside ActuatorState; a
\* device status that is not a DeviceStatus; a null configuration), the
\* operation raises and no message is published or queued.
C17_InvalidProviderValueRaises ==
    (last.op \in PublishOps /\ last.arg \in InvalidAnswers) =>
        /\ last.result = "raise"
        /\ EmittedOf(last.events) = <<>>
        /\ ~HasPubFail(last.events)
        /\ queue = last.pre

\* ----------------------------------------------------------------- C18
\* C18: every queue operation is atomic with respect to the operations of
\* the other thread: none of them ends in an error because the queue changed
\* under it (remove between its membership test and its removal,
\* get_messages_for_device while it reads), and what
\* get_messages_for_device returns is the selection of one state the queue
\* was in during the call.
C18_QueueOperationsAtomic ==
    \A t \in Threads :
        /\ threads[t].result # "raise"
        /\ threads[t].result # "torn"

\* ----------------------------------------------------------------- C19
WithKey(devs, key) == { i \in 1..Len(devs) : devs[i].key = key }

\* C19: when two threads have called add_device with devices of the same
\* key and both calls have returned, exactly one device with that key is in
\* the registry and exactly one registration request was emitted for it.
C19_ConcurrentAddKeepsKeysUnique ==
    \A t, u \in Threads :
        (/\ t # u
         /\ threads[t].pc = "idle" /\ threads[t].op = "add_device"
         /\ threads[u].pc = "idle" /\ threads[u].op = "add_device"
         /\ threads[t].dev.key = threads[u].dev.key) =>
            /\ Cardinality(WithKey(devices, threads[t].dev.key)) = 1
            /\ Len(EmittedOf(threads[t].events))
                   + Len(EmittedOf(threads[u].events)) = 1

\* ----------------------------------------------------------------- C20
IsPrefix(a, b) == Len(a) <= Len(b) /\ SubSeq(b, 1, Len(a)) = a

\* C20: disconnect() leaves the outbound queue as it was, and no operation
\* called while disconnected takes a message out of it or reorders it: the
\* messages queued at disconnect() are still there, in order, when connect()
\* is called next.
C20_DisconnectKeepsQueue ==
    [][ /\ (last'.op = "disconnect" => queue' = queue)
        /\ (~connected /\ last'.op # "connect" => IsPrefix(queue, queue')) ]_vars

\* a disconnect with two messages waiting in the queue
C20_Witness ==
    /\ last.op = "disconnect" /\ last.conn
    /\ Len(queue) = 2
    /\ queue = last.pre

\* ================================================== broker sessions (C21)
\* the registry operations with the registration requests of each session
\* counted
NextSession ==
    \/ \E device \in {DevA, DevA0, DevB} : AddDevice(device)
    \/ ConnectQuietly
    \/ Disconnect
    \/ PublishAll

SpecSession == InitState(AllHandlers, TRUE) /\ [][NextSession]_vars

\* C21: in every session, from a connect() that succeeds to the disconnect()
\* that follows it, the transport is handed exactly one registration request
\* for each device of the registry, the queue having been drained and the
\* transport having refused nothing; this includes the sessions opened by a
\* later connect() for a device added before.
C21_RegisteredOncePerSession ==
    [][ (/\ session.on /\ ~session.failed /\ connected /\ queue = <<>>
         /\ last'.op = "disconnect") =>
            \A i \in DOMAIN devices : session.regs[devices[i].key] = 1 ]_vars

\* ============================================= MQTTConnectivityService (C22)
\* the CONNACK result codes: accepted, and the five refusals
Accepted == "0"
Refusals == {"1", "2", "3", "4", "5"}
ResultCodes == {Accepted} \cup Refusals

\* client.loop_stop(); client.disconnect(): AttributeError without a client;
\* with one, the client calls _on_mqtt_disconnect with rc 0 when it still has
\* a socket to send DISCONNECT on, and calls nothing when it has none
\* _on_mqtt_disconnect with rc 0: connected = False, connected_rc = None
on_mqtt_disconnect(s) == [s EXCEPT !.connected = FALSE, !.connected_rc = "None"]

ClientDisconnects(s) == IF s.client THEN {s, on_mqtt_disconnect(s)} ELSE {s}

\* the part of connect() before the wait loop: a new client, its CONNECT
\* sent, the loop thread started, the deadline taken
StartAttempt(s) ==
    [s EXCEPT !.client = TRUE, !.pc = "loop", !.answer = "none",
              !.slept = FALSE, !.result = "none"]

\* connect(): True at once when connected, else a new attempt
MqttConnect ==
    /\ mqtt.pc = "idle"
    /\ mqtt' = IF mqtt.connected
               THEN [mqtt EXCEPT !.result = "already"]
               ELSE StartAttempt(mqtt)
    /\ UNCHANGED <<wolk, call>>

\* reconnect(): connected = False, the old client stopped and disconnected,
\* then connect()
MqttReconnect ==
    /\ mqtt.pc = "idle"
    /\ \E s \in ClientDisconnects([mqtt EXCEPT !.connected = FALSE]) :
           mqtt' = StartAttempt(s)
    /\ UNCHANGED <<wolk, call>>

\* _on_mqtt_connect, called by the client's thread with the broker's answer
\* to the attempt made last; the answer may come after connect() has given up
MqttOnConnect(rc) ==
    /\ mqtt.client /\ mqtt.answer = "none"
    /\ mqtt' = [mqtt EXCEPT !.answer = rc,
                            !.connected_rc = rc,
                            !.connected = IF rc = Accepted THEN TRUE ELSE @]
    /\ UNCHANGED <<wolk, call>>

\* one turn of the wait loop of connect(): the deadline cannot have passed
\* before the loop has slept; reading connected_rc raises AttributeError
\* when nothing has assigned it
MqttLoop ==
    /\ mqtt.pc = "loop"
    /\ \/ /\ mqtt.slept
          /\ mqtt' = [mqtt EXCEPT !.pc = "idle", !.result = "timeout"]
       \/ mqtt' =
            CASE mqtt.connected_rc = "unset" ->
                     [mqtt EXCEPT !.pc = "idle", !.result = "attribute_error"]
              [] mqtt.connected_rc = "None" ->
                     [mqtt EXCEPT !.slept = TRUE]
              [] mqtt.connected_rc = Accepted ->
                     [mqtt EXCEPT !.pc = "idle", !.connected = TRUE,
                                  !.result = "true"]
              [] OTHER ->
                     [mqtt EXCEPT !.pc = "idle", !.result = mqtt.connected_rc]
    /\ mqtt' # mqtt
    /\ UNCHANGED <<wolk, call>>

\* disconnect(): last will published, the client stopped and disconnected,
\* connected = False
MqttDisconnect ==
    /\ mqtt.pc = "idle"
    /\ \E s \in ClientDisconnects(mqtt) :
           mqtt' = [s EXCEPT !.connected = FALSE, !.result = "disconnected"]
    /\ mqtt' # mqtt
    /\ UNCHANGED <<wolk, call>>

NextMqtt ==
    \/ MqttConnect
    \/ MqttReconnect
    \/ \E rc \in ResultCodes : MqttOnConnect(rc)
    \/ MqttLoop
    \/ MqttDisconnect

SpecMqtt == InitWith(AllHandlers) /\ [][NextMqtt]_vars

\* C22: connect() and reconnect() end as the broker answered the attempt
\* they made: they return true, and `connected` is set, only when the broker
\* answered this attempt with code 0; they raise the error of a refusal code
\* only when the broker answered this attempt with that code; otherwise they
\* raise the time-out error. A code left by an earlier attempt, or no code
\* having been assigned yet, decides nothing.
C22_OutcomeFromThisAttempt ==
    /\ mqtt.connected => mqtt.answer = Accepted
    /\ (mqtt.pc = "idle" /\ mqtt.result \notin {"none", "already", "disconnected"}) =>
          /\ mqtt.result \in {"true", "timeout"} \cup Refusals
          /\ mqtt.result = "true" => mqtt.answer = Accepted
          /\ mqtt.result \in Refusals => mqtt.answer = mqtt.result

\* ================================================ firmware statuses (C23)
\* the values of FirmwareUpdateErrorCode, "" standing for no error code
FirmwareUpdateErrorCodes == {"0", "1", "2", "3", "4"}

\* a call of `f` on `arg` that returned `out`, or raised
Called(f, arg, out) == [f |-> f, arg |-> arg, out |-> out, raised |-> FALSE]
Raised(f, arg) == [f |-> f, arg |-> arg, out |-> <<>>, raised |-> TRUE]
Input(arg) == Called("input", arg, <<>>)

StatusInputs ==
    { Input(<<key, state, code>>) :
        key \in Keys, state \in FirmwareUpdateStates,
        code \in FirmwareUpdateErrorCodes \cup {""} }

\* FirmwareUpdateStatus(state, code): the dataclass stores both fields
ConstructStatus ==
    /\ call.f = "input"
    /\ call' = Called("FirmwareUpdateStatus", call.arg,
                      FirmwareUpdateStatus(call.arg[2], call.arg[3]))
    /\ UNCHANGED <<wolk, mqtt>>

\* make_firmware_update_status_message(key, status) of a constructed status
EncodeStatus ==
    /\ call.f = "FirmwareUpdateStatus" /\ ~call.raised
    /\ call' = Called("make_firmware_update_status_message",
                      <<call.arg[1], call.out>>,
                      make_update_message(call.arg[1], call.out))
    /\ UNCHANGED <<wolk, mqtt>>

NextStatusCodec ==
    \/ ConstructStatus
    \/ EncodeStatus

SpecStatusCodec ==
    /\ InitWolk(AllHandlers, FALSE) /\ mqtt = NewService /\ call \in StatusInputs
    /\ [][NextStatusCodec]_vars

\* C23: a FirmwareUpdateStatus that was constructed has an error code exactly
\* when its state is ERROR, and an update-status message carries an error
\* field only when its status is ERROR.
C23_ErrorCodeIffError ==
    /\ (call.f = "FirmwareUpdateStatus" /\ ~call.raised) =>
           (call.out.error_code # "" <=> call.out.status = "ERROR")
    /\ call.f = "make_firmware_update_status_message" =>
           (InSeq("error:", call.out.payload) => call.arg[2].status = "ERROR")

\* ========================================== configuration values (C24)
MaxText == 1
MaxInt == 11

\* the characters of the strings: a digit, a letter, the delimiter, a dot
Chars == {"7", "x", ",", "."}
DigitChars == <<"0", "1", "2", "3", "4", "5", "6", "7", "8", "9">>
Digits == {DigitChars[i] : i \in DOMAIN DigitChars}
Texts == UNION {[1..k -> Chars] : k \in 0..MaxText}

\* the elements of a configuration tuple, tagged with their Python type
IntValue(n) == [t |-> "int", v |-> n]
FloatValue(text) == [t |-> "float", v |-> text]
StrValue(text) == [t |-> "str", v |-> text]

\* a configuration value: a tuple of elements, or one string
TupleValue(items) == [tuple |-> TRUE, items |-> items]
ScalarValue(text) == [tuple |-> FALSE, items |-> <<StrValue(text)>>]

\* str(n) of a non-negative int, and int(text)
RECURSIVE Decimal(_)
Decimal(n) ==
    IF n < Len(DigitChars) THEN <<DigitChars[n + 1]>>
    ELSE Decimal(n \div Len(DigitChars)) \o <<DigitChars[(n % Len(DigitChars)) + 1]>>

DigitOf(ch) == (CHOOSE i \in DOMAIN DigitChars : DigitChars[i] = ch) - 1

RECURSIVE ParseDecimal(_)
ParseDecimal(text) ==
    IF Len(text) = 1 THEN DigitOf(text[1])
    ELSE ParseDecimal(SubSeq(text, 1, Len(text) - 1)) * Len(DigitChars)
             + DigitOf(text[Len(text)])

\* int(text) and float(text) raise ValueError on the other texts
IsIntText(text) == text # <<>> /\ \A i \in DOMAIN text : text[i] \in Digits
IsFloatText(text) ==
    /\ \A i \in DOMAIN text : text[i] \in Digits \cup {"."}
    /\ \E i \in DOMAIN text : text[i] \in Digits
    /\ Cardinality({i \in DOMAIN text : text[i] = "."}) <= 1

\* str(value) of an element
PyStr(e) == IF e.t = "int" THEN Decimal(e.v) ELSE e.v

\* "".join of the str() of the elements with "," between them
RECURSIVE JoinWithDelimiter(_)
JoinWithDelimiter(items) ==
    IF Len(items) = 1 THEN PyStr(items[1])
    ELSE PyStr(items[1]) \o <<",">> \o JoinWithDelimiter(Tail(items))

\* text.split(",")
RECURSIVE SplitAtDelimiter(_, _)
SplitAtDelimiter(text, part) ==
    IF text = <<>> THEN <<part>>
    ELSE IF Head(text) = "," THEN <<part>> \o SplitAtDelimiter(Tail(text), <<>>)
    ELSE SplitAtDelimiter(Tail(text), Append(part, Head(text)))

\* make_configuration_message, one value of the mapping: a tuple becomes the
\* joined string
EncodeConfigurationValue(value) == JoinWithDelimiter(value.items)

\* make_configuration_command, one value of the mapping: a string with a
\* "," is split; floats when a part has a ".", else ints; the parts stay
\* strings when one of them does not convert
DecodeConfigurationValue(text) ==
    IF ~InSeq(",", text) THEN ScalarValue(text)
    ELSE LET parts == SplitAtDelimiter(text, <<>>)
             all(ok(_)) == \A i \in DOMAIN parts : ok(parts[i])
         IN TupleValue(
              IF \E i \in DOMAIN parts : InSeq(".", parts[i])
              THEN IF all(IsFloatText)
                   THEN [i \in DOMAIN parts |-> FloatValue(parts[i])]
                   ELSE [i \in DOMAIN parts |-> StrValue(parts[i])]
              ELSE IF all(IsIntText)
                   THEN [i \in DOMAIN parts |-> IntValue(ParseDecimal(parts[i]))]
                   ELSE [i \in DOMAIN parts |-> StrValue(parts[i])])

\* the mappings of the claim: one reference, a tuple of two or three ints or
\* of two or three strings
TuplesOf(elements) == UNION {[1..n -> elements] : n \in {2, 3}}
ConfigurationInputs ==
    { Input(<<[r \in {RefT} |-> TupleValue(items)]>>) :
        items \in TuplesOf({IntValue(n) : n \in 0..MaxInt})
                    \cup TuplesOf({StrValue(text) : text \in Texts}) }

\* make_configuration_message: the payload is the JSON object of the
\* encoded values
EncodeConfiguration ==
    /\ call.f = "input"
    /\ call' = Called("make_configuration_message", call.arg,
                      [r \in DOMAIN call.arg[1] |->
                           EncodeConfigurationValue(call.arg[1][r])])
    /\ UNCHANGED <<wolk, mqtt>>

\* make_configuration_command on a configuration-set message with that
\* payload
DecodeConfiguration ==
    /\ call.f = "make_configuration_message"
    /\ call' = Called("make_configuration_command", <<call.arg[1], call.out>>,
                      [r \in DOMAIN call.out |->
                           DecodeConfigurationValue(call.out[r])])
    /\ UNCHANGED <<wolk, mqtt>>

NextConfigurationCodec ==
    \/ EncodeConfiguration
    \/ DecodeConfiguration

SpecConfigurationCodec ==
    /\ InitWolk(AllHandlers, FALSE) /\ mqtt = NewService
    /\ call \in ConfigurationInputs
    /\ [][NextConfigurationCodec]_vars

SameElement(a, b) == a.t = b.t /\ a.v = b.v
SameValue(a, b) ==
    /\ a.tuple = b.tuple
    /\ Len(a.items) = Len(b.items)
    /\ \A i \in DOMAIN a.items : SameElement(a.items[i], b.items[i])

\* C24: a configuration mapping whose values are tuples of two or three
\* integers or of two or three strings comes back from
\* make_configuration_message followed by make_configuration_command with the
\* same references, the same tuples and the same element type.
C24_ConfigurationRoundTrip ==
    call.f = "make_configuration_command" =>
        /\ DOMAIN call.out = DOMAIN call.arg[1]
        /\ \A r \in DOMAIN call.out : SameValue(call.out[r], call.arg[1][r])

\* ================================================ encoders' arguments (C25)
\* the values handed to the encoders: tuples of two or three elements, and
\* scalars
EncoderElements == {IntValue(0), IntValue(MaxInt), StrValue(<<"x">>)}
EncoderValues ==
    {TupleValue(items) : items \in TuplesOf(EncoderElements)}
        \cup {[tuple |-> FALSE, items |-> <<e>>] : e \in EncoderElements}

\* the argument of an encoder, as far as the encoder reads or writes it:
\* `values` the value of a reading or of an actuator status under its
\* reference, or a configuration mapping; `dev` and `params` the device of a
\* registration request and the keys of its template's
\* firmware_update_parameters
Argument(values, dev, params) == [values |-> values, dev |-> dev, params |-> params]

Encoders ==
    {"make_sensor_reading_message", "make_actuator_status_message",
     "make_configuration_message", "make_registration_message"}

EncoderInputs ==
    { Input(<<f, Argument([r \in {RefT} |-> v], NoDevice, {})>>) :
        f \in Encoders \ {"make_registration_message"}, v \in EncoderValues }
    \cup
    { Input(<<"make_registration_message", Argument(<<>>, d, p)>>) :
        d \in DeviceUniverse, p \in {{}, {"supportsFirmwareUpdate"}} }

\* `if isinstance(value, tuple): ... x.value = "".join(map(str, values_list))`
\* of make_sensor_reading_message and make_actuator_status_message
JoinedInPlace(value) ==
    IF value.tuple THEN ScalarValue(JoinWithDelimiter(value.items)) ELSE value

\* the loop of make_configuration_message: every value of the mapping is
\* replaced by a string
StringInPlace(value) ==
    IF value.tuple THEN ScalarValue(JoinWithDelimiter(value.items))
    ELSE ScalarValue(PyStr(value.items[1]))

\* an encoder applied to an argument: the message it returns and the
\* argument as it is after the call
Encoding(f, a) ==
    CASE f = "make_sensor_reading_message" ->
           LET v == JoinedInPlace(a.values[RefT])
           IN [message |-> make_sensor_reading_message(
                               KeyA, RefT, PyStr(v.items[1]), "t"),
               after |-> [a EXCEPT !.values[RefT] = v]]
      [] f = "make_actuator_status_message" ->
           LET v == JoinedInPlace(a.values[RefT])
           IN [message |-> make_actuator_status_message(
                               KeyA, RefT, "READY", PyStr(v.items[1])),
               after |-> [a EXCEPT !.values[RefT] = v]]
      [] f = "make_configuration_message" ->
           LET v == StringInPlace(a.values[RefT])
           IN [message |-> make_configuration_message(
                               KeyA, RefT \o <<":">> \o v.items[1].v),
               after |-> [a EXCEPT !.values[RefT] = v]]
      [] f = "make_registration_message" ->
           [message |-> make_registration_message(a.dev),
            after |-> [a EXCEPT !.params = @ \cup {"supportsFirmwareUpdate"}]]

\* the encoder called on its argument
EncodeOnce ==
    /\ call.f = "input"
    /\ call.arg[1] \in Encoders
    /\ call' = Called("once", call.arg, Encoding(call.arg[1], call.arg[2]))
    /\ UNCHANGED <<wolk, mqtt>>

\* the encoder called again on the same object
EncodeTwice ==
    /\ call.f = "once"
    /\ call' = Called("twice", call.arg \o <<call.out>>,
                      Encoding(call.arg[1], call.out.after))
    /\ UNCHANGED <<wolk, mqtt>>

NextEncoders ==
    \/ EncodeOnce
    \/ EncodeTwice

SpecEncoders ==
    /\ InitWolk(AllHandlers, FALSE) /\ mqtt = NewService
    /\ call \in EncoderInputs
    /\ [][NextEncoders]_vars

SameArgument(a, b) ==
    /\ a.params = b.params
    /\ \A r \in DOMAIN a.values : SameValue(a.values[r], b.values[r])

\* C25: make_sensor_reading_message, make_actuator_status_message,
\* make_configuration_message and make_registration_message leave their
\* argument as it was (the value of the reading, the value of the actuator
\* status, the configuration mapping, the firmware_update_parameters of the
\* template), and a second call on the same argument returns the same message.
C25_EncodersLeaveArguments ==
    /\ call.f = "once" => SameArgument(call.out.after, call.arg[2])
    /\ call.f = "twice" => call.out.message = call.arg[3].message

\* ================================================== topic strings (C26)
\* the characters of a token of a topic, the "/" apart
TokenPieces(tok) ==
    CASE tok = "d2p/sensor_reading/" -> <<"d2p", "/", "sensor_reading", "/">>
      [] tok = "d2p/events/" -> <<"d2p", "/", "events", "/">>
      [] tok = "d2p/actuator_status/" -> <<"d2p", "/", "actuator_status", "/">>
      [] tok = "p2d/actuator_set/" -> <<"p2d", "/", "actuator_set", "/">>
      [] tok = "p2d/actuator_get/" -> <<"p2d", "/", "actuator_get", "/">>
      [] tok = "p2d/register_subdevice_response/" ->
             <<"p2d", "/", "register_subdevice_response", "/">>
      [] tok = "d/" -> <<"d", "/">>
      [] tok = "r/" -> <<"r", "/">>
      [] OTHER -> <<tok>>

\* a topic as the string it is
RECURSIVE Pieces(_)
Pieces(topic) ==
    IF topic = <<>> THEN <<>> ELSE TokenPieces(Head(topic)) \o Pieces(Tail(topic))

\* string.split("/")
RECURSIVE SplitLevels(_, _)
SplitLevels(pieces, level) ==
    IF pieces = <<>> THEN <<level>>
    ELSE IF Head(pieces) = "/" THEN <<level>> \o SplitLevels(Tail(pieces), <<>>)
    ELSE SplitLevels(Tail(pieces), Append(level, Head(pieces)))

Levels(topic) == SplitLevels(Pieces(topic), <<>>)

\* the broker's test of a topic against a subscription of client.subscribe:
\* level by level, "#" for every remainder
RECURSIVE FilterMatches(_, _)
FilterMatches(filter, levels) ==
    IF filter = <<>> THEN levels = <<>>
    ELSE IF Head(filter) = CHANNEL_WILDCARD THEN TRUE
    ELSE /\ levels # <<>>
         /\ Head(filter) = Head(levels)
         /\ FilterMatches(Tail(filter), Tail(levels))

TopicReferences == {RefT, RefSW, <<"T", "0">>}

\* the topics of the data codec that carry a reference
ReferenceTopics ==
    {"sensor_reading", "alarm", "actuator_status", "actuator_set", "actuator_get"}

RootOf(kind) ==
    CASE kind = "sensor_reading" -> SENSOR_READING
      [] kind = "alarm" -> AlARM
      [] kind = "actuator_status" -> ACTUATOR_STATUS
      [] kind = "actuator_set" -> ACTUATOR_SET
      [] kind = "actuator_get" -> ACTUATOR_GET

\* the topic the codec builds: of the message for the outbound kinds, of the
\* subscription (its reference is "#") for the inbound kinds
TopicBuilt(kind, key, reference) ==
    CASE kind = "sensor_reading" ->
           make_sensor_reading_message(key, reference, "1", "t").topic
      [] kind = "alarm" ->
           make_alarm_message(key, reference, "true", "t").topic
      [] kind = "actuator_status" ->
           make_actuator_status_message(key, reference, "READY", "1").topic
      [] kind = "actuator_set" -> DataInboundTopics(key)[1]
      [] kind = "actuator_get" -> DataInboundTopics(key)[2]

TopicInputs ==
    { Input(<<kind, key, reference>>) :
        kind \in ReferenceTopics \cup {"inbound"}, key \in Keys,
        reference \in TopicReferences }

\* the codec builds the topic
BuildTopic ==
    /\ call.f = "input" /\ call.arg[1] \in ReferenceTopics
    /\ call' = Called("topic", call.arg,
                      Pieces(TopicBuilt(call.arg[1], call.arg[2],
                                 IF call.arg[1] \in {"actuator_set", "actuator_get"}
                                 THEN CHANNEL_WILDCARD ELSE call.arg[3])))
    /\ UNCHANGED <<wolk, mqtt>>

\* the broker tests the actuator-set topic of a device and a reference
\* against the subscriptions get_inbound_topics_for_device gives that device
DeliverInbound ==
    /\ call.f = "input" /\ call.arg[1] = "inbound"
    /\ LET topic == <<<<"p2d">>, <<"actuator_set">>, <<"d">>, call.arg[2],
                      <<"r">>, call.arg[3]>>
           filters == DataInboundTopics(call.arg[2])
       IN call' = Called("deliver", call.arg,
                         \E i \in DOMAIN filters :
                             FilterMatches(Levels(filters[i]), topic))
    /\ UNCHANGED <<wolk, mqtt>>

NextTopics ==
    \/ BuildTopic
    \/ DeliverInbound

SpecTopics ==
    /\ InitWolk(AllHandlers, FALSE) /\ mqtt = NewService
    /\ call \in TopicInputs
    /\ [][NextTopics]_vars

\* C26: every topic of the data codec that carries a reference is
\* root + "d/" + key + "/r/" + reference (the reference of a subscription
\* being "#"), and the actuator-set topic p2d/actuator_set/d/<key>/r/<ref>
\* of a device is matched by one of that device's subscriptions.
C26_ReferenceTopicLayout ==
    /\ call.f = "topic" =>
           call.out = Pieces(RootOf(call.arg[1])) \o <<"d", "/">> \o call.arg[2]
                          \o <<"/", "r", "/">>
                          \o (IF call.arg[1] \in {"actuator_set", "actuator_get"}
                              THEN CHANNEL_WILDCARD ELSE call.arg[3])
    /\ call.f = "deliver" => call.out

\* ============================================ registration topics (C27)
MaxKeyLen == 3

\* device keys as strings: letters, a digit, and "/"
KeyChars == {"a", "0", "/"}
KeyTexts == UNION {[1..n -> KeyChars] : n \in 0..MaxKeyLen}

\* message.topic.startswith(DEVICE_REGISTRATION_RESPONSE_TOPIC_ROOT)
is_registration_response_message(message) ==
    IsPrefix(Pieces(DEVICE_REGISTRATION_RESPONSE_TOPIC_ROOT), Pieces(message.topic))

\* the first level of the topic instead of the last
ExtractFirstLevel(message) == Levels(message.topic)[1]

\* message.topic.split("/")[-1]
extract_key_from_message(message) ==
    Levels(message.topic)[Len(Levels(message.topic))]

RegistrationInputs == {Input(<<key>>) : key \in KeyTexts}

\* get_inbound_topics_for_device(key)
RegistrationTopics ==
    /\ call.f = "input"
    /\ call' = Called("get_inbound_topics_for_device", call.arg,
                      RegistrationInboundTopics(call.arg[1]))
    /\ UNCHANGED <<wolk, mqtt>>

\* is_registration_response_message of a message on the topic of the list
ClassifyResponse ==
    /\ call.f = "get_inbound_topics_for_device"
    /\ LET message == Message(call.out[1], <<"{result:", "OK", "}">>)
       IN call' = Called("is_registration_response_message",
                         <<call.arg[1], message>>,
                         is_registration_response_message(message))
    /\ UNCHANGED <<wolk, mqtt>>

\* extract_key_from_message of that message
ExtractKey ==
    /\ call.f = "is_registration_response_message"
    /\ call' = Called("extract_key_from_message", call.arg,
                      extract_key_from_message(call.arg[2]))
    /\ UNCHANGED <<wolk, mqtt>>

NextRegistrationCodec ==
    \/ RegistrationTopics
    \/ ClassifyResponse
    \/ ExtractKey

SpecRegistrationCodec ==
    /\ InitWolk(AllHandlers, FALSE) /\ mqtt = NewService
    /\ call \in RegistrationInputs
    /\ [][NextRegistrationCodec]_vars

\* C27: for every key K without "/", the inbound topic list of the
\* registration codec is exactly ["p2d/register_subdevice_response/d/" + K],
\* a message on that topic is classified as a registration response, and
\* the key extracted from it is K.
C27_RegistrationTopicRoundTrip ==
    ~InSeq("/", call.arg[1]) =>
        /\ call.f = "get_inbound_topics_for_device" =>
               /\ Len(call.out) = 1
               /\ Pieces(call.out[1]) =
                      <<"p2d", "/", "register_subdevice_response", "/", "d", "/">>
                          \o call.arg[1]
        /\ call.f = "is_registration_response_message" => call.out
        /\ call.f = "extract_key_from_message" => call.out = call.arg[1]

\* the key a0a has been extracted from the message on its topic
C27_Witness ==
    /\ call.f = "extract_key_from_message"
    /\ call.arg[1] = <<"a", "0", "a">>
    /\ call.out = <<"a", "0", "a">>

\* ======================================= sensor and actuator templates (C28)
\* DataType, and a value that is no DataType; "None" stands for None
DataTypes == {"NUMERIC", "BOOLEAN", "STRING"}
DataTypeArguments == DataTypes \cup {"None", "notADataType"}
\* reading type names and units: None, the empty string, a string
NameArguments == {"None", "", "TEMPERATURE"}
UnitArguments == {"None", "", "CELSIUS"}

\* bool(x): None and "" are false, the members of DataType are true
Truthy(x) == x \notin {"None", ""}

TemplateInputs ==
    { Input(<<kind, data_type, reading_type_name, unit>>) :
        kind \in {"SensorTemplate", "ActuatorTemplate"},
        data_type \in DataTypeArguments,
        reading_type_name \in NameArguments, unit \in UnitArguments }

\* the reading type of a template
ReadingType(name, unit) == [readingTypeName |-> name, symbol |-> unit]

\* ActuatorTemplate.__init__
ActuatorTemplate(arg, data_type, reading_type_name, unit) ==
    IF ~(Truthy(data_type) \/ Truthy(reading_type_name) \/ Truthy(unit))
    THEN Raised("ActuatorTemplate", arg)
    ELSE IF Truthy(data_type)
    THEN IF data_type \notin DataTypes
         THEN Raised("ActuatorTemplate", arg)
         ELSE Called("ActuatorTemplate", arg,
                     CASE data_type = "NUMERIC" -> ReadingType("COUNT(ACTUATOR)", "count")
                       [] data_type = "BOOLEAN" -> ReadingType("SWITCH(ACTUATOR)", "")
                       [] data_type = "STRING" -> ReadingType("STRING(ACTUATOR)", ""))
    ELSE IF ~(Truthy(reading_type_name) /\ Truthy(unit))
    THEN Raised("ActuatorTemplate", arg)
    ELSE Called("ActuatorTemplate", arg, ReadingType(reading_type_name, unit))

\* SensorTemplate.__init__; a unit that is a string, empty or not, passes
\* the isinstance test
SensorTemplate(arg, data_type, reading_type_name, unit) ==
    IF ~(Truthy(data_type) \/ Truthy(reading_type_name) \/ Truthy(unit))
    THEN Raised("SensorTemplate", arg)
    ELSE IF Truthy(data_type)
    THEN IF data_type \notin DataTypes
         THEN Raised("SensorTemplate", arg)
         ELSE Called("SensorTemplate", arg, ReadingType(data_type, ""))
    ELSE IF ~(Truthy(reading_type_name) /\ unit # "None")
    THEN Raised("SensorTemplate", arg)
    ELSE Called("SensorTemplate", arg, ReadingType(reading_type_name, unit))

ConstructSensorTemplate ==
    /\ call.f = "input" /\ call.arg[1] = "SensorTemplate"
    /\ call' = SensorTemplate(call.arg, call.arg[2], call.arg[3], call.arg[4])
    /\ UNCHANGED <<wolk, mqtt>>

ConstructActuatorTemplate ==
    /\ call.f = "input" /\ call.arg[1] = "ActuatorTemplate"
    /\ call' = ActuatorTemplate(call.arg, call.arg[2], call.arg[3], call.arg[4])
    /\ UNCHANGED <<wolk, mqtt>>

NextTemplates ==
    \/ ConstructSensorTemplate
    \/ ConstructActuatorTemplate

SpecTemplates ==
    /\ InitWolk(AllHandlers, FALSE) /\ mqtt = NewService
    /\ call \in TemplateInputs
    /\ [][NextTemplates]_vars

\* C28: a sensor or actuator template is constructed only when exactly one
\* form is given: a data_type alone, or reading_type_name and unit both and
\* no data_type; with neither, with only one of reading_type_name and unit,
\* or with a data_type together with reading_type_name or unit the
\* constructor raises.
C28_TemplateFormsExclusive ==
    (call.f \in {"SensorTemplate", "ActuatorTemplate"} /\ ~call.raised) =>
        \/ /\ call.arg[2] \in DataTypes
           /\ call.arg[3] = "None" /\ call.arg[4] = "None"
        \/ /\ call.arg[2] = "None"
           /\ call.arg[3] # "None" /\ call.arg[4] # "None"

\* ================================================ actuator-set messages (C29)
\* the message the platform sends to set actuator R of device K to V
ActuatorSetMessage(key, reference, value) ==
    Message(ACTUATOR_SET \o DEVICE_PATH_PREFIX \o key \o <<"/">>
                \o REFERENCE_PATH_PREFIX \o reference,
            <<"{value:", value, "}">>)

\* message.topic.startswith(ACTUATOR_SET)
is_actuator_set_message(message) ==
    IsPrefix(Pieces(ACTUATOR_SET), Pieces(message.topic))

\* a command whose reference is the first level of the topic
ActuatorCommandOfFirstLevel(message) ==
    ActuatorCommand(Levels(message.topic)[1], "SET", message.payload[2])

\* make_actuator_command: the reference is topic.split("/")[-1], the value
\* is payload["value"]
make_actuator_command(message) ==
    ActuatorCommand(Levels(message.topic)[Len(Levels(message.topic))],
                    "SET", message.payload[2])

\* data_protocol.extract_key_from_message: the level of the topic after "d"
data_extract_key_from_message(message) ==
    LET levels == Levels(message.topic)
    IN levels[(CHOOSE i \in DOMAIN levels : levels[i] = <<"d">>) + 1]

\* _on_inbound_message with an actuator-set message
OnActuatorSetMessage(key, reference, value) ==
    LET message == ActuatorSetMessage(key, reference, value)
    IN /\ is_actuator_set_message(message)
       /\ InboundActuatorSetCommand(data_extract_key_from_message(message),
                                    make_actuator_command(message),
                                    <<Recv(message, <<key, reference, value>>)>>)

ActuatorValues == {"true", "5"}

NextActuatorSet ==
    \/ ConnectQuietly
    \/ Disconnect
    \/ \E key \in Keys, reference \in {RefT, RefSW}, value \in ActuatorValues :
           OnActuatorSetMessage(key, reference, value)
               /\ QueueWithin(MaxInboundQueue)
    \/ PublishAll

SpecActuatorSet == InitWith(AllHandlers) /\ [][NextActuatorSet]_vars

\* the positions of the events of `events` that are calls of `f`
CallsOf(events, f) ==
    {i \in DOMAIN events : events[i].t \in {"call", "callraise"} /\ events[i].f = f}

DevC == Device(KeyB, <<"C">>, <<>>, TRUE, FALSE)

\* `for actuator in get_actuator_references(): publish_acutator_status(key,
\* actuator.reference)`: the elements are the references themselves, the
\* strings connect() hands to publish_acutator_status, and a string has no
\* attribute `reference`: the first turn raises AttributeError, which the
\* `except RuntimeError` does not catch
ResponseActuators(refs, st, key, conn, oracle, prov) ==
    IF refs = <<>> THEN st ELSE Raise(st, <<>>)

\* the firmware version of the registered device: `return` when the handler
\* gives no version, a failure to publish and to store is logged
ResponseFirmware(st, device, conn, oracle, prov) ==
    IF ~supports_firmware_update(device) THEN st
    ELSE IF ~handlers.fw THEN Raise(st, <<>>)
    ELSE LET called == St(st.q, Append(st.ev, Call("get_firmware_version", device.key)),
                          st.n, st.result)
         IN IF prov.version = "" THEN called
            ELSE TryPublishThenStore(called,
                     make_version_message(device.key, prov.version), conn, oracle)

\* the first device of the registry with the key
RegisteredDevice(devs, key) ==
    devs[CHOOSE i \in DOMAIN devs :
             devs[i].key = key /\ \A j \in 1..(i - 1) : devs[j].key # key]

\* _on_inbound_message with a registration response for `key`; the providers
\* answer with valid values
InboundRegistrationResponse(key) ==
    \E oracle \in PubOracles(MaxPub) :
        LET st0 == St(queue, <<>>, 1, "ok")
            known == InSeq(key, DeviceKeys(devices))
            device == IF known THEN RegisteredDevice(devices, key) ELSE NoDevice
            s1 == ResponseActuators(get_actuator_references(device), st0,
                                    key, connected, oracle, DefaultProvider)
            s2 == IF s1.result # "raise" /\ has_configurations(device)
                  THEN TryPublishOperation(s1, "configuration_provider", key,
                           "returns",
                           publish_configuration(s1, key, connected, oracle,
                                                 DefaultProvider))
                  ELSE s1
            s3 == IF s2.result # "raise"
                  THEN ResponseFirmware(s2, device, connected, oracle, DefaultProvider)
                  ELSE s2
            st == IF known THEN s3 ELSE st0
        IN /\ connected
           /\ \A i \in DOMAIN oracle : i >= st.n => oracle[i]
           /\ Len(st.q) <= MaxQueue
           /\ queue' = st.q
           /\ last' = Last("inbound_registration_response", key, device, "",
                           st.ev, st.result)
           /\ UNCHANGED <<mqtt, call, threads, handlers, devices, topics, lastwill, connected, installing>> /\ Tracked

NextResponse ==
    \/ \E device \in {DevA, DevA0, DevC} :
           AddDevice(device) /\ QueueWithin(MaxConnectQueue)
    \/ ConnectQuietly /\ QueueWithin(MaxConnectQueue)
    \/ Disconnect
    \/ \E key \in Keys :
           InboundRegistrationResponse(key) /\ QueueWithin(MaxConnectQueue)
    \/ PublishAll

SpecResponse == InitWith(AllHandlers) /\ [][NextResponse]_vars

\* the topics of the messages a registration response asks for
ResponseTopics(d) ==
    ActuatorStatusTopics(d.key, d.actuators)
        \o (IF d.configurations
            THEN <<CONFIGURATION_STATUS \o DEVICE_PATH_PREFIX \o d.key>>
            ELSE <<>>)
        \o (IF d.firmware
            THEN <<FIRMWARE_VERSION_UPDATE_TOPIC_ROOT \o DEVICE_PATH_PREFIX \o d.key>>
            ELSE <<>>)

\* C30: a registration response for a key that is not in the registry calls
\* no provider and publishes and queues nothing; one for a key of the
\* registry emits one actuator status per actuator of that device, one
\* configuration message if and only if it has configurations and one
\* firmware version if and only if it supports firmware update, all for
\* that device and nothing else.
C30_ResponseEmitsDeclaredState ==
    last.op = "inbound_registration_response" =>
        IF ~InSeq(last.key, DeviceKeys(devices))
        THEN last.events = <<>> /\ queue = last.pre
        ELSE TopicsOf(EmittedOf(last.events))
                 = ResponseTopics(RegisteredDevice(devices, last.key))

\* ===================================== the installer reports success (C31)
\* `if not publish(m): if not put(m): log`, with a queue that may refuse the
\* message: OutboundMessageDeque.put always answers True, a queue given to
\* the constructor may answer False
TryPublishThenPut(st, m, conn, oracle, accepted) ==
    IF TransportPublish(conn, OracleAt(oracle, st.n))
    THEN St(st.q, Append(st.ev, Pub(m)), st.n + 1, st.result)
    ELSE IF accepted
    THEN St(put(st.q, m), st.ev \o <<PubFail(m), Put(m)>>, st.n + 1, st.result)
    ELSE St(st.q, st.ev \o <<PubFail(m), PutFail(m)>>, st.n + 1, st.result)

\* the message handed over last was neither published nor stored
Unstored(st) == st.ev # <<>> /\ st.ev[Len(st.ev)].t = "putfail"

\* a success callback that goes on to the version whatever became of the
\* COMPLETED message
InstallSuccessVersionAnyway(st, key, conn, oracle, prov, puts) ==
    LET entered == St(st.q, Append(st.ev, Call("on_install_success", key)),
                      st.n, st.result)
        s1 == TryPublishThenPut(entered,
                  make_update_message(key, FirmwareUpdateStatus("COMPLETED", "")),
                  conn, oracle, puts[1])
        s2 == St(s1.q, Append(s1.ev, Call("get_firmware_version", key)),
                 s1.n, s1.result)
    IN IF prov.version = "" THEN s2
       ELSE TryPublishThenPut(s2, make_version_message(key, prov.version),
                              conn, oracle, puts[2])

\* _on_install_success: COMPLETED is published or stored, `return` when it
\* could be neither; then the version is asked for, `return` when there is
\* none; then the version message is published or stored
InstallSuccess(st, key, conn, oracle, prov, puts) ==
    LET entered == St(st.q, Append(st.ev, Call("on_install_success", key)),
                      st.n, st.result)
        s1 == TryPublishThenPut(entered,
                  make_update_message(key, FirmwareUpdateStatus("COMPLETED", "")),
                  conn, oracle, puts[1])
        s2 == St(s1.q, Append(s1.ev, Call("get_firmware_version", key)),
                 s1.n, s1.result)
    IN IF Unstored(s1) THEN s1
       ELSE IF prov.version = "" THEN s2
       ELSE TryPublishThenPut(s2, make_version_message(key, prov.version),
                              conn, oracle, puts[2])

\* the installer calls on_install_success(key) after install_firmware has
\* returned; `arg` keeps the version the handler answers with
OnInstallSuccessStoring(key) ==
    \E oracle \in PubOracles(2), version \in VersionReturns,
       puts \in [1..2 -> PutVerdicts] :
        LET prov == [DefaultProvider EXCEPT !.version = version]
            st == InstallSuccess(St(queue, <<>>, 1, "ok"), key, connected,
                                 oracle, prov, puts)
        IN /\ handlers.fw
           /\ key \in installing
           /\ Len(st.q) <= MaxQueue
           /\ queue' = st.q
           /\ installing' = installing \ {key}
           /\ last' = Last("on_install_success", key, NoDevice, version,
                           st.ev, st.result)
           /\ UNCHANGED <<mqtt, call, threads, handlers, devices, topics, lastwill, connected>> /\ Tracked

NextInstall ==
    \/ ConnectQuietly
    \/ Disconnect
    \/ InboundFirmwareInstall(KeyB) /\ QueueWithin(MaxConnectQueue)
    \/ OnInstallSuccessStoring(KeyB) /\ QueueWithin(MaxConnectQueue)
    \/ PublishAll

SpecInstall == InitWith(AllHandlers) /\ [][NextInstall]_vars

\* the positions after `c` of the events of kinds `kinds` that carry `m`
EventsAfter(events, c, kinds, m) ==
    { i \in DOMAIN events : i > c /\ events[i].t \in kinds /\ events[i].m = m }

\* C31: when the installer calls on_install_success(key), the COMPLETED
\* status of key is handed to the transport once; the firmware handler is
\* asked for the version once, and only after the COMPLETED message was
\* published or stored; one version message of key is then handed over, after
\* the COMPLETED message; the handler is not asked when COMPLETED could be
\* neither published nor stored, and no version message is handed over then
\* or when the handler returns no version.
C31_VersionFollowsCompleted ==
    last.op = "on_install_success" =>
        LET ev == last.events
            completed == make_update_message(last.key,
                                             FirmwareUpdateStatus("COMPLETED", ""))
            version == make_version_message(last.key, last.arg)
            handed == EventsAfter(ev, 1, {"pub", "pubfail"}, completed)
            kept == EventsAfter(ev, 1, {"pub", "put"}, completed)
            asked == CallIndex(ev, "get_firmware_version")
            versions == { i \in DOMAIN ev :
                            /\ ev[i].t \in {"pub", "pubfail", "put", "putfail"}
                            /\ ev[i].m.topic = version.topic }
        IN /\ ev[1] = Call("on_install_success", last.key)
           /\ Cardinality(handed) = 1
           /\ Cardinality(kept) <= 1
           /\ Cardinality(asked) = Cardinality(kept)
           /\ \A a \in asked : \E i \in kept : i < a
           /\ \A v \in versions :
                  /\ ev[v].m = version
                  /\ \E a \in asked : a < v
                  /\ \A i \in handed : i < v
           /\ Cardinality({ v \in versions : ev[v].t \in {"pub", "pubfail"} })
                  = IF kept # {} /\ last.arg # "" THEN 1 ELSE 0

\* COMPLETED was refused by the transport and stored, then the version was
\* published
C31_Witness ==
    /\ last.op = "on_install_success" /\ last.key = KeyB /\ last.arg = "1.0"
    /\ Len(last.events) = 5
    /\ last.events[2].t = "pubfail" /\ last.events[3].t = "put"
    /\ last.events[4] = Call("get_firmware_version", KeyB)
    /\ last.events[5] = Pub(make_version_message(KeyB, "1.0"))

\* COMPLETED could be neither published nor stored: nothing follows
C31_WitnessUnstored ==
    /\ last.op = "on_install_success"
    /\ Len(last.events) = 3
    /\ last.events[3].t = "putfail"

\* ============================================ OutboundMessageDeque (C32)
\* the messages put in the deque: one per key, the topic of the second
\* containing the key of the first
DequeMessages == { make_sensor_reading_message(key, RefT, "23", "None") : key \in Keys }

\* each action is one call on the deque by a single caller; `call` keeps the
\* queue as it was before the call, the argument and what the call returned

\* put: `self.queue.append(message); return True`
DequePut(m) ==
    /\ Len(queue) < MaxQueue
    /\ queue' = put(queue, m)
    /\ call' = Called("put", <<queue, m>>, TRUE)
    /\ UNCHANGED <<handlers, devices, topics, lastwill, connected, installing, last,
                   threads, session, mqtt>>

\* get: `return self.queue.popleft()`, `except IndexError: return None`
DequeGet ==
    /\ queue' = get(queue).queue
    /\ call' = Called("get", <<queue>>,
                      [none |-> get(queue).none, message |-> get(queue).message])
    /\ UNCHANGED <<handlers, devices, topics, lastwill, connected, installing, last,
                   threads, session, mqtt>>

\* remove: `if message in self.queue: self.queue.remove(message)`, True
\* either way
DequeRemove(m) ==
    /\ queue' = remove(queue, m)
    /\ call' = Called("remove", <<queue, m>>, TRUE)
    /\ UNCHANGED <<handlers, devices, topics, lastwill, connected, installing, last,
                   threads, session, mqtt>>

\* get_messages_for_device: the list of the messages whose topic contains
\* the key
DequeMessagesForDevice(key) ==
    /\ call' = Called("get_messages_for_device", <<queue, key>>,
                      IF queue_size(queue) = 0 THEN <<>>
                      ELSE get_messages_for_device(queue, key))
    /\ UNCHANGED <<wolk, mqtt>>

\* queue_size: `return len(self.queue)`
DequeSize ==
    /\ call' = Called("queue_size", <<queue>>, queue_size(queue))
    /\ UNCHANGED <<wolk, mqtt>>

NextDeque ==
    \/ \E m \in DequeMessages : DequePut(m)
    \/ DequeGet
    \/ \E m \in DequeMessages : DequeRemove(m)
    \/ \E key \in Keys : DequeMessagesForDevice(key)
    \/ DequeSize

SpecDeque == InitWith(AllHandlers) /\ [][NextDeque]_vars

\* the sequence `seq` without its element at position i
WithoutAt(seq, i) == SubSeq(seq, 1, i - 1) \o SubSeq(seq, i + 1, Len(seq))

\* `out` lists, in the order of `seq`, exactly the elements of `seq` at the
\* positions of `at`
ListsInOrder(out, seq, at) ==
    /\ Len(out) = Cardinality(at)
    /\ \A i \in at : out[Cardinality({j \in at : j <= i})] = seq[i]

\* C32: on the sequence of messages the deque holds, put appends at the back
\* and returns true; get removes and returns the front element, or returns
\* none and changes nothing when the sequence is empty; remove(m) deletes
\* exactly the first element equal to m and changes nothing when there is
\* none; get_messages_for_device changes nothing and returns, in queue order,
\* exactly the messages whose topic contains the key; queue_size is the
\* length of the sequence.
C32_DequeRefinesSequence ==
    LET pre == call.arg[1]
    IN /\ call.f = "put" =>
              /\ queue = pre \o <<call.arg[2]>>
              /\ call.out = TRUE
       /\ call.f = "get" =>
              IF pre = <<>>
              THEN call.out.none /\ queue = pre
              ELSE /\ ~call.out.none
                   /\ call.out.message = pre[1]
                   /\ queue = SubSeq(pre, 2, Len(pre))
       /\ call.f = "remove" =>
              LET equal == { i \in DOMAIN pre : pre[i] = call.arg[2] }
              IN IF equal = {} THEN queue = pre
                 ELSE \E i \in equal :
                          /\ \A j \in equal : i <= j
                          /\ queue = WithoutAt(pre, i)
       /\ call.f = "get_messages_for_device" =>
              /\ queue = pre
              /\ ListsInOrder(call.out, pre,
                     { i \in DOMAIN pre : Contains(pre[i].topic, call.arg[2]) })
       /\ call.f = "queue_size" =>
              /\ queue = pre
              /\ call.out = Len(pre)

\* a removal from a queue that holds the message twice, around another one
C32_Witness ==
    /\ call.f = "remove"
    /\ Len(call.arg[1]) = 3
    /\ call.arg[1][1] = call.arg[2] /\ call.arg[1][3] = call.arg[2]
    /\ call.arg[1][2] # call.arg[2]
    /\ queue = SubSeq(call.arg[1], 2, 3)

\* ------------------------------------------------------------------ C33
\* the reading was produced by add_sensor_reading for device `key`
ReadingOf(m, key) ==
    m.topic = SENSOR_READING \o DEVICE_PATH_PREFIX \o key
                  \o REFERENCE_PATH_PREFIX \o RefT

\* C33: publish(K) hands to the transport only messages that were produced
\* for K, and the queued messages of every other key, a key that contains K
\* or is contained in K included, stay in the queue in their order.
C33_KeyedDrainTouchesOnlyItsKey ==
    (last.op = "publish" /\ last.key # NoKey) =>
        /\ \A i \in DOMAIN last.events :
               last.events[i].t \in {"pub", "pubfail"} =>
                   ReadingOf(last.events[i].m, last.key)
        /\ SelectSeq(queue, LAMBDA m : ~ReadingOf(m, last.key))
               = SelectSeq(last.pre, LAMBDA m : ~ReadingOf(m, last.key))

\* ========================== a caller that drains only per device (C34)
NextPerDevice ==
    \/ \E device \in {DevA, DevA0} : AddDevice(device)
    \/ \E key \in {KeyA, KeyA0} : AddSensorReading(key, RefT, "23", "None")
    \/ ConnectQuietly
    \/ Disconnect
    \/ \E key \in {KeyA, KeyA0} : PublishKey(key)

SpecPerDevice == InitWith(AllHandlers) /\ [][NextPerDevice]_vars

\* the registration requests of the devices with key `key`
RegistrationRequests(key) ==
    { make_registration_message(d) : d \in {e \in DeviceUniverse : e.key = key} }

\* C34: after publish(K) made while connected, the transport having refused
\* nothing, no registration request of device K is left in the outbound
\* queue: the request add_device(K) queued while disconnected was handed to
\* the transport.
C34_KeyedDrainSendsRegistration ==
    (/\ last.op = "publish" /\ last.key # NoKey /\ last.conn
     /\ ~HasPubFail(last.events)) =>
        \A i \in DOMAIN queue : queue[i] \notin RegistrationRequests(last.key)

\* ============================== publish called from two threads (C35)
\* Wolk.publish holds no lock.  Each call it makes on the queue, on the
\* transport's connected() and on the transport's publish is one step, and
\* the other thread may run between two of them.  Each thread calls publish
\* once; `key` is NoKey for publish() without a key, `m` the message in
\* hand (NoMessage for None), `acc` the list the keyed loop walks, `events`
\* what the thread handed to the transport.
Publishing(t, pc) == [threads[t] EXCEPT !.pc = pc]

PublishReturned(t, result) ==
    [Returned(t, "publish", <<>>, result)
        EXCEPT !.key = threads[t].key, !.events = threads[t].events]

\* `if queue_size() == 0: return`, `if not connected(): return`
ThreadPublishStart(t, key) ==
    /\ threads[t].pc = "idle" /\ threads[t].op = "none"
    /\ threads' = [threads EXCEPT ![t] =
                      IF queue_size(queue) = 0 \/ ~ConnectedCall(connected)
                      THEN [Returned(t, "publish", <<>>, "ok") EXCEPT !.key = key]
                      ELSE [IdleThread EXCEPT
                               !.pc = IF key = NoKey THEN "while" ELSE "filter",
                               !.op = "publish", !.key = key]]
    /\ UNCHANGED <<mqtt, call, session, handlers, devices, topics, lastwill, queue, connected,
                   installing, last>>

\* `while queue_size() > 0`
ThreadPublishWhile(t) ==
    /\ threads[t].pc = "while"
    /\ threads' = [threads EXCEPT ![t] =
                      IF queue_size(queue) > 0 THEN Publishing(t, "get")
                      ELSE PublishReturned(t, "ok")]
    /\ UNCHANGED <<mqtt, call, session, handlers, devices, topics, lastwill, queue, connected,
                   installing, last>>

\* `message = get()`: None when the other thread has emptied the queue
ThreadPublishGet(t) ==
    /\ threads[t].pc = "get"
    /\ queue' = get(queue).queue
    /\ threads' = [threads EXCEPT ![t] =
                      [Publishing(t, "send") EXCEPT !.m = get(queue).message]]
    /\ UNCHANGED <<mqtt, call, session, handlers, devices, topics, lastwill, connected, installing, last>>

\* `messages = get_messages_for_device(device_key)`
ThreadPublishFilter(t) ==
    /\ threads[t].pc = "filter"
    /\ threads' = [threads EXCEPT ![t] =
                      [Publishing(t, "for") EXCEPT
                          !.acc = get_messages_for_device(queue, threads[t].key)]]
    /\ UNCHANGED <<mqtt, call, session, handlers, devices, topics, lastwill, queue, connected,
                   installing, last>>

\* `for message in messages`
ThreadPublishFor(t) ==
    /\ threads[t].pc = "for"
    /\ threads' = [threads EXCEPT ![t] =
                      IF threads[t].acc = <<>> THEN PublishReturned(t, "ok")
                      ELSE [Publishing(t, "send") EXCEPT
                               !.m = Head(threads[t].acc),
                               !.acc = Tail(threads[t].acc)]]
    /\ UNCHANGED <<mqtt, call, session, handlers, devices, topics, lastwill, queue, connected,
                   installing, last>>

\* `if not connectivity_service.publish(message): log.info.error; return`:
\* the transport reads message.topic, which raises AttributeError when the
\* message is None; the failure branch raises AttributeError as well
ThreadPublishSend(t) ==
    \E ok \in BOOLEAN :
        LET m == threads[t].m
            sent == TransportPublish(connected, ok) /\ m # NoMessage
            handed == [threads[t] EXCEPT
                          !.events = Append(@, IF sent THEN Pub(m) ELSE PubFail(m))]
        IN /\ threads[t].pc = "send"
           /\ threads' = [threads EXCEPT ![t] =
                             IF sent THEN [handed EXCEPT !.pc = "remove"]
                             ELSE [Returned(t, "publish", <<>>, "raise")
                                      EXCEPT !.key = handed.key,
                                             !.events = handed.events]]
           /\ UNCHANGED <<mqtt, call, session, handlers, devices, topics, lastwill, queue,
                          connected, installing, last>>

\* `outbound_message_queue.remove(message)`
ThreadPublishRemove(t) ==
    /\ threads[t].pc = "remove"
    /\ queue' = remove(queue, threads[t].m)
    /\ threads' = [threads EXCEPT ![t] =
                      Publishing(t, IF threads[t].key = NoKey THEN "while" ELSE "for")]
    /\ UNCHANGED <<mqtt, call, session, handlers, devices, topics, lastwill, connected, installing, last>>

\* the readings are stored before the two threads call publish, each of
\* them once
NoPublishYet == \A t \in Threads : threads[t].op = "none"

NextPublishThreads ==
    \/ \E value \in {"23", "24"} :
           /\ NoPublishYet
           /\ ~InSeq(make_sensor_reading_message(KeyA, RefT, value, "None"), queue)
           /\ AddSensorReading(KeyA, RefT, value, "None")
    \/ NoPublishYet /\ ConnectQuietly
    \/ \E t \in Threads, key \in {NoKey, KeyA} : ThreadPublishStart(t, key)
    \/ \E t \in Threads : ThreadPublishWhile(t)
    \/ \E t \in Threads : ThreadPublishGet(t)
    \/ \E t \in Threads : ThreadPublishFilter(t)
    \/ \E t \in Threads : ThreadPublishFor(t)
    \/ \E t \in Threads : ThreadPublishSend(t)
    \/ \E t \in Threads : ThreadPublishRemove(t)

SpecPublishThreads == InitWith(AllHandlers) /\ [][NextPublishThreads]_vars

\* the transport's publish calls made by thread t that carry m
HandedBy(t, m, kinds) ==
    { i \in DOMAIN threads[t].events :
        threads[t].events[i].t \in kinds /\ threads[t].events[i].m = m }

\* C35: with two threads in publish while connected, a message that was put
\* in the queue once is accepted by the transport at most once, and the
\* transport's publish is never called with a null message.
C35_ConcurrentPublishOnce ==
    /\ \A value \in {"23", "24"} :
           LET m == make_sensor_reading_message(KeyA, RefT, value, "None")
           IN Cardinality(HandedBy(1, m, {"pub"}))
                  + Cardinality(HandedBy(2, m, {"pub"})) <= 1
    /\ \A t \in Threads : HandedBy(t, NoMessage, {"pub", "pubfail"}) = {}

\* ------------------------------------------------------------------ C36
\* C36: the terminal status of an install is not accepted by the transport
\* while the INSTALLATION status of the same install, refused by the
\* transport and put in the outbound queue by the same handler, is still
\* waiting there: the statuses of one install reach the transport in the
\* order in which they were generated.
C36_StatusOrderKept ==
    last.op = "inbound_firmware_install" =>
        \A i \in DOMAIN last.events, j \in DOMAIN last.events :
            (/\ i < j
             /\ last.events[i].t = "put"
             /\ IsUpdateStatus(last.events[i].m, last.key, {"INSTALLATION"})
             /\ InSeq(last.events[i].m, queue))
            => ~(/\ last.events[j].t = "pub"
                 /\ IsUpdateStatus(last.events[j].m, last.key, TerminalStates))

\* ------------------------------------------------------------------ C37
\* the registration requests the transport accepted during the last handler
RegistrationsPublished ==
    { i \in DOMAIN last.events :
        /\ last.events[i].t = "pub"
        /\ \E d \in DeviceUniverse : last.events[i].m = make_registration_message(d) }

Subscribed(key) ==
    /\ ToSet(RegistrationInboundTopics(key)) \subseteq ToSet(topics)
    /\ ToSet(DeviceTopics(key)) \subseteq ToSet(topics)

\* C37: a registration request is accepted by the transport only after the
\* inbound topics of its device, the registration-response topic included,
\* were added to the transport's topics.  Inside add_device the topics are
\* added first, then the transport is reconnected, then the request is
\* published; a request drained later by publish() finds the topics of every
\* device of the registry in place.
C37_SubscribedBeforeRegistration ==
    \A i \in RegistrationsPublished :
        IF last.op = "add_device"
        THEN /\ last.events[i].m = make_registration_message(last.dev)
             /\ Subscribed(last.key)
             /\ \E s \in 1..(i - 1), r \in 1..(i - 1) :
                    /\ s < r
                    /\ last.events[s] = CallWith("add_subscription_topics", last.key,
                                                 DeviceTopics(last.key))
                    /\ last.events[r] = Call("reconnect", NoKey)
        ELSE \A d \in DeviceUniverse :
                 (/\ last.events[i].m = make_registration_message(d)
                  /\ InSeq(d.key, DeviceKeys(devices))) => Subscribed(d.key)

\* a device added while connected: topics, reconnect, then the request
C37_Witness ==
    /\ last.op = "add_device" /\ last.dev = DevA0 /\ last.conn
    /\ Len(last.events) = 3
    /\ last.events[2] = Call("reconnect", NoKey)
    /\ last.events[3] = Pub(make_registration_message(DevA0))
    /\ Subscribed(KeyA0)

\* a request queued by add_device while disconnected and drained by publish()
C37_WitnessDrained ==
    /\ last.op = "publish"
    /\ RegistrationsPublished # {}

\* ======================================== the connection is lost (C38)
\* _on_mqtt_disconnect(client, userdata, rc), called by the client's thread
\* once the broker had accepted the connection: `if rc != 0: raise
\* RuntimeError`, and only after that `connected = False; connected_rc = None`
MqttOnDisconnect(rc) ==
    /\ mqtt.client /\ mqtt.answer = Accepted
    /\ mqtt' = IF rc # "0" THEN mqtt ELSE on_mqtt_disconnect(mqtt)
    /\ call' = IF rc # "0" THEN Raised("_on_mqtt_disconnect", <<rc>>)
               ELSE Called("_on_mqtt_disconnect", <<rc>>, <<>>)
    /\ UNCHANGED wolk

\* MQTTConnectivityService.publish: False when `connected` is false, else
\* what the client answers
MqttPublish ==
    \E ok \in BOOLEAN :
        /\ mqtt.pc = "idle"
        /\ call' = Called("publish", <<mqtt.connected>>,
                          TransportPublish(mqtt.connected, ok))
        /\ UNCHANGED <<wolk, mqtt>>

NextMqttLink ==
    \/ NextMqtt
    \/ \E rc \in {"0", "1"} : MqttOnDisconnect(rc)
    \/ MqttPublish

SpecMqttLink == InitWith(AllHandlers) /\ [][NextMqttLink]_vars

\* C38: when the client's disconnect callback has run with a result code
\* other than 0, the transport's connected flag is false, so that publish
\* returns false from then on.
C38_LostConnectionClearsFlag ==
    [][ (/\ call'.f = "_on_mqtt_disconnect" /\ call' # call
         /\ call'.arg # <<"0">>) => ~mqtt'.connected ]_vars

\* ================================ inbound commands and the registry (C39)
\* The client's network thread receives a message on a topic the transport
\* is subscribed to and then calls _on_mqtt_message, which hands it to
\* _on_inbound_message; the caller's thread may run add_device or
\* remove_device in between.  `call` holds the message the client has
\* received and not yet handed over.
CommandKinds == {"actuator_set", "configuration_set"}

\* the subscription a command of `kind` for `key` arrives on
CommandFilter(kind, key) ==
    IF kind = "actuator_set" THEN DataInboundTopics(key)[1]
    ELSE DataInboundTopics(key)[3]

\* the broker delivers a command for `key`: the connection is up and the
\* topic is among those subscribed at the last (re)connect
CommandArrives(kind, key) ==
    /\ connected
    /\ call = NoCall
    /\ InSeq(CommandFilter(kind, key), topics)
    /\ call' = Called("_on_mqtt_message", <<kind, key>>, <<>>)
    /\ UNCHANGED <<wolk, mqtt>>

\* _on_inbound_message, actuator-set and configuration-set branches: the
\* callbacks are present, the handler is called with the key taken from the
\* message, then the state is published; neither branch reads self.devices
CommandHandled ==
    \E oracle \in PubOracles(1) :
        LET kind == call.arg[1]
            key == call.arg[2]
            st0 == St(queue, <<>>, 1, "ok")
            s1 == IF kind = "actuator_set"
                  THEN HandlerCallWith(st0, "actuation_handler", key,
                                       <<RefSW, "1">>, "returns")
                  ELSE HandlerCall(st0, "configuration_handler", key, "returns")
            st == IF kind = "actuator_set"
                  THEN IF ~handlers.act THEN st0
                       ELSE TryPublishOperation(s1, "acutator_status_provider", key,
                                "returns",
                                publish_acutator_status(s1, key, RefSW, connected,
                                                        oracle, DefaultProvider))
                  ELSE IF ~handlers.conf THEN st0
                       ELSE TryPublishOperation(s1, "configuration_provider", key,
                                "returns",
                                publish_configuration(s1, key, connected, oracle,
                                                      DefaultProvider))
        IN /\ call.f = "_on_mqtt_message"
           /\ Len(st.q) <= MaxQueue
           /\ queue' = st.q
           /\ call' = NoCall
           /\ last' = Last(IF kind = "actuator_set" THEN "inbound_actuator_set"
                           ELSE "inbound_configuration_set",
                           key, NoDevice, "", st.ev, st.result)
           /\ UNCHANGED <<mqtt, threads, handlers, devices, topics, lastwill, connected, installing>> /\ Tracked

NextCommands ==
    \/ \E device \in {DevA, DevB} :
           AddDevice(device) /\ QueueWithin(MaxInboundQueue)
    \/ \E key \in {KeyA, KeyB} : RemoveDevice(key)
    \/ ConnectQuietly /\ QueueWithin(MaxInboundQueue)
    \/ Disconnect
    \/ \E kind \in CommandKinds, key \in {KeyA, KeyB} : CommandArrives(kind, key)
    \/ CommandHandled /\ QueueWithin(MaxInboundQueue)
    \/ PublishAll

SpecCommands == InitWith(AllHandlers) /\ [][NextCommands]_vars

\* C39: an actuator-set or configuration-set message for a key that is not
\* in the registry when the message is handled calls neither the actuation
\* handler nor the configuration handler, calls no provider and emits no
\* message.
C39_HandlersOnlyForRegisteredKeys ==
    (/\ last.op \in {"inbound_actuator_set", "inbound_configuration_set"}
     /\ ~InSeq(last.key, DeviceKeys(devices))) =>
        /\ \A i \in DOMAIN last.events :
               last.events[i].t \notin {"call", "callraise", "pub", "pubfail", "put"}
        /\ queue = last.pre

\* ------------------------------------------------------------------ C40
\* C40: publish(), with or without a device key, called while the transport
\* is not connected or while the outbound queue is empty, changes nothing:
\* the queue keeps its messages in their order, the registry, the topics and
\* the connection are as before, and the transport's publish is not called.
C40_PublishWithoutWorkChangesNothing ==
    [][ (last'.op = "publish" /\ (~connected \/ queue = <<>>)) =>
            /\ UNCHANGED <<queue, devices, topics, lastwill, connected, installing>>
            /\ last'.events = <<>>
            /\ last'.result = "ok" ]_vars

\* publish('a') while disconnected with two messages waiting
C40_Witness ==
    /\ last.op = "publish" /\ last.key = KeyA /\ ~last.conn
    /\ Len(last.pre) = 2
    /\ queue = last.pre
    /\ last.events = <<>>

====
